---- MODULE Spec2Model ----
(***************************************************************************)
(* Slack activity collector: webhook event ingestion (eventsHandler.js,    *)
(* eventsStore.js), the daily aggregation job (statsService.js,            *)
(* scheduler.js) and the summary upsert, as state machines.                *)
(*                                                                         *)
(* The specifications share the variables:                               *)
(*   Spec       - concurrent processSlackEvent calls against the four      *)
(*                event tables;                                            *)
(*   SpecJob    - concurrent runDailySummaryJob runs, with event rows       *)
(*                arriving through the store's save operations;            *)
(*   SpecWindow - getDayRange / collectStatsForDate / count<Kind>Between   *)
(*                applied to inputs drawn from bounded sets;               *)
(*   SpecPersist - collectStatsForDate and persistSummary one after the    *)
(*                other, between event writes;                             *)
(*   SpecRuns   - the runs of SpecJob over a store that does not change;   *)
(*   SpecDates  - the target date and the aggregator, across restarts of   *)
(*                the process in other time zones;                         *)
(*   SpecHttp   - requests to POST /api/slack/events, verified and then    *)
(*                processed concurrently;                                  *)
(*   SpecSystem - processSlackEvent calls and runDailySummaryJob runs      *)
(*                together;                                                *)
(*   SpecChannels - runDailySummaryJob runs while events of two channels   *)
(*                are stored.                                              *)
(***************************************************************************)
EXTENDS Integers, Sequences, FiniteSets, TLC

VARIABLES
  reaction_events,   \* rows of table reaction_events
  member_events,     \* rows of table member_events
  message_events,    \* rows of table message_events
  file_events,       \* rows of table file_events
  daily_summaries,   \* rows of table daily_summaries
  calls,             \* processSlackEvent calls, by delivery number
  finished,          \* history: how the finished calls ended
  http,              \* requests to POST /api/slack/events, by delivery number
  config,            \* config.js: slackChannelId, timezone, slackBotToken
  now,               \* index into Clock: the current instant
  processTz,         \* the time zone of the server process (TZ)
  runs,              \* in-flight runDailySummaryJob runs, by run number
  posted,            \* history: the references of the messages posted
  fresh,             \* history: keys summarised since the last event write
  win                \* SpecWindow: the last pure-function application

vars == <<reaction_events, member_events, message_events, file_events,
          daily_summaries, calls, finished, http, config, now, processTz,
          runs, posted, fresh, win>>

tables == <<reaction_events, member_events, message_events, file_events>>
callVars == <<calls, finished, http>>
jobVars == <<daily_summaries, runs, posted, fresh>>
envVars == <<config, now, processTz>>

(***************************************************************************)
(* Bounds of the model.                                                    *)
(***************************************************************************)
MaxDeliveries == 2
MaxRuns == 2

(***************************************************************************)
(* JavaScript values.  Absent stands for undefined/null; Falsy is what     *)
(* `!x` accepts for a string-or-undefined x.                               *)
(***************************************************************************)
Absent == "<absent>"
Falsy(x) == x \in {Absent, ""}
OrElse(x, y) == IF Falsy(x) THEN y ELSE x

(***************************************************************************)
(* Instants.  An instant is [day, ms]: whole days since 1970-01-01 UTC and *)
(* milliseconds into that day, so that millisecond arithmetic stays within *)
(* the integers TLC has.                                                   *)
(***************************************************************************)
MsPerSecond == 1000
SecondsPerDay == 24 * 60 * 60
MsPerDay == SecondsPerDay * MsPerSecond
MsPerMinute == 60 * MsPerSecond

Instant(d, m) == [day |-> d, ms |-> m]
Leq(a, b) == a.day < b.day \/ (a.day = b.day /\ a.ms <= b.ms)
\* a + delta milliseconds, |delta| < MsPerDay
PlusMs(a, delta) ==
  LET m == a.ms + delta
  IN  IF m < 0 THEN Instant(a.day - 1, m + MsPerDay)
      ELSE IF m >= MsPerDay THEN Instant(a.day + 1, m - MsPerDay)
      ELSE Instant(a.day, m)

\* new Date(Number(sec.micro) * 1000): the fraction below a millisecond is dropped
FromEpochSeconds(sec, micro) ==
  Instant(sec \div SecondsPerDay,
          (sec % SecondsPerDay) * MsPerSecond + (micro \div MsPerSecond))

(***************************************************************************)
(* The proleptic Gregorian calendar, as Date.UTC and Intl.DateTimeFormat   *)
(* compute it: a day number from a civil date and back.                    *)
(***************************************************************************)
DaysFromCivil(y0, m, d) ==
  LET y   == IF m <= 2 THEN y0 - 1 ELSE y0
      era == y \div 400
      yoe == y - era * 400
      mp  == IF m > 2 THEN m - 3 ELSE m + 9
      doy == (153 * mp + 2) \div 5 + d - 1
      doe == yoe * 365 + yoe \div 4 - yoe \div 100 + doy
  IN  era * 146097 + doe - 719468

CivilFromDays(z0) ==
  LET z   == z0 + 719468
      era == z \div 146097
      doe == z - era * 146097
      yoe == (doe - doe \div 1460 + doe \div 36524 - doe \div 146096) \div 365
      doy == doe - (365 * yoe + yoe \div 4 - yoe \div 100)
      mp  == (5 * doy + 2) \div 153
      d   == doy - (153 * mp + 2) \div 5 + 1
      m   == IF mp < 10 THEN mp + 3 ELSE mp - 9
      y   == yoe + era * 400
  IN  [year |-> IF m <= 2 THEN y + 1 ELSE y, month |-> m, day |-> d]

\* Offset from UTC, in minutes, of the IANA zones used (none of them is in
\* daylight time on the days of the model).
TimeZones == {"UTC", "Asia/Kolkata", "America/New_York"}
TzOffsetMinutes(tz) ==
  CASE tz = "UTC" -> 0
    [] tz = "Asia/Kolkata" -> 330
    [] tz = "America/New_York" -> -300

(***************************************************************************)
(* Event bodies.  A raw timestamp is [kind, sec, micro]: kind "absent" for *)
(* a missing field, "num" for Slack's "<sec>.<micro>" string.              *)
(***************************************************************************)
NoTs == [kind |-> "absent", sec |-> 0, micro |-> 0]
RawTs(sec, micro) == [kind |-> "num", sec |-> sec, micro |-> micro]
\* 2024-01-15T10:00:00.000100Z and 2024-01-14T19:00:00Z
TsA == RawTs(1705312800, 100)
TsB == RawTs(1705258800, 0)
\* 2023-11-14T22:13:20Z
TsC == RawTs(1700000000, 0)

Clock == << Instant(19737, 43200000), Instant(19738, 3600000) >>
Now == Clock[now + 1]

EmptyBody(type) ==
  [type |-> type, user |-> Absent, reaction |-> Absent, item_channel |-> Absent,
   channel |-> Absent, channel_id |-> Absent, user_id |-> Absent,
   file_id |-> Absent, file_name |-> Absent, subtype |-> Absent,
   bot_id |-> Absent, event_ts |-> NoTs, ts |-> NoTs]

\* One well-formed body per kind, as in the handlers' doc comments.
ReactionBody ==
  [EmptyBody("reaction_added") EXCEPT !.user = "U1", !.reaction = "thumbsup",
                                      !.item_channel = "C1", !.event_ts = TsA]
MemberBody(type) ==
  [EmptyBody(type) EXCEPT !.user = "U1", !.channel = "C1", !.event_ts = TsA]
MessageBody ==
  [EmptyBody("message") EXCEPT !.user = "U1", !.channel = "C1", !.ts = TsA]
FileBody ==
  [EmptyBody("file_shared") EXCEPT !.user_id = "U1", !.channel_id = "C1",
                                   !.file_id = "F1", !.file_name = "document.pdf",
                                   !.event_ts = TsA]

WellFormed ==
  {ReactionBody, MessageBody, FileBody,
   MemberBody("member_joined_channel"), MemberBody("member_left_channel")}

\* The bodies delivered: each well-formed body, and each with one field changed.
Vary(b, f, vals) == {[b EXCEPT ![f] = v] : v \in vals}
Bodies ==
  WellFormed \cup {EmptyBody("app_mention")}
  \cup Vary(ReactionBody, "item_channel", {"C2", Absent})
  \cup Vary(ReactionBody, "user", {"U2", Absent})
  \cup Vary(ReactionBody, "event_ts", {TsB, TsC, NoTs})
  \cup Vary([ReactionBody EXCEPT !.event_ts = NoTs], "ts", {TsA})
  \cup Vary(MemberBody("member_joined_channel"), "channel", {"C2", Absent})
  \cup Vary(MemberBody("member_left_channel"), "user", {"U2"})
  \cup Vary(MemberBody("member_left_channel"), "channel", {Absent})
  \cup Vary(MemberBody("member_left_channel"), "event_ts", {NoTs})
  \cup Vary(MessageBody, "channel", {"C2", Absent})
  \cup Vary(MessageBody, "subtype", {"message_changed"})
  \cup Vary(MessageBody, "bot_id", {"B1"})
  \cup Vary(MessageBody, "event_ts", {TsB})
  \cup Vary(FileBody, "channel_id", {"C2", Absent})
  \cup Vary(FileBody, "file_name", {Absent, ""})
  \cup Vary([FileBody EXCEPT !.channel_id = Absent], "channel", {"C1"})

EventIds == {"Ev1", "Ev2"}
Payloads ==
  [event_id : {"Ev1"}, event : Bodies, has_event : {TRUE}]
  \cup [event_id : {"Ev2"}, event : WellFormed, has_event : {TRUE}]
  \cup {[event_id |-> Absent, event |-> ReactionBody, has_event |-> TRUE],
        [event_id |-> "", event |-> ReactionBody, has_event |-> TRUE],
        [event_id |-> "Ev1", event |-> EmptyBody(Absent), has_event |-> FALSE]}

(***************************************************************************)
(* Event normalisation (eventsHandler.js).  A handler either returns at    *)
(* once (Return) or issues one save.                                       *)
(***************************************************************************)
slackTsToDate(eventTs, current) ==
  IF eventTs.kind = "absent" THEN current
  ELSE FromEpochSeconds(eventTs.sec, eventTs.micro)

\* event.event_ts || event.ts
TsOf(event) == IF event.event_ts.kind = "absent" THEN event.ts ELSE event.event_ts

NoRow == [event_id |-> Absent]
Return(why) == [op |-> "return", table |-> "none", row |-> NoRow, why |-> why]
Save(table, row) == [op |-> "save", table |-> table, row |-> row, why |-> "save"]

\* Plausible fault: the channel is read where the other kinds carry it.
handleReactionAddedEventChannel(eventId, event, current) ==
  LET channelId == event.channel
  IN  IF Falsy(channelId) THEN Return("missing_channel")
      ELSE Save("reaction_events",
                [event_id |-> eventId, channel_id |-> channelId,
                 user_id |-> event.user, reaction |-> event.reaction,
                 event_ts |-> slackTsToDate(event.event_ts, current),
                 raw_event |-> event])

handleReactionAdded(eventId, event, current) ==
  LET channelId == event.item_channel
  IN  IF Falsy(channelId) THEN Return("missing_channel")
      ELSE Save("reaction_events",
                [event_id |-> eventId, channel_id |-> channelId,
                 user_id |-> event.user, reaction |-> event.reaction,
                 event_ts |-> slackTsToDate(event.event_ts, current),
                 raw_event |-> event])

MemberSave(eventId, event, current) ==
  LET channelId == event.channel
  IN  IF Falsy(channelId) THEN Return("missing_channel")
      ELSE Save("member_events",
                [event_id |-> eventId, channel_id |-> channelId,
                 user_id |-> event.user, event_type |-> event.type,
                 event_ts |-> slackTsToDate(TsOf(event), current),
                 raw_event |-> event])

handleMemberJoined(eventId, event, current) == MemberSave(eventId, event, current)
handleMemberLeft(eventId, event, current) == MemberSave(eventId, event, current)

\* Plausible fault: only the subtype is looked at.
IsFilteredSubtypeOnly(event) == ~Falsy(event.subtype)

IsFiltered(event) == ~Falsy(event.subtype) \/ ~Falsy(event.bot_id)

handleMessage(eventId, event, current) ==
  LET channelId == event.channel
  IN  IF Falsy(channelId) THEN Return("missing_channel")
      ELSE IF IsFiltered(event) THEN Return("filtered")
      ELSE Save("message_events",
                [event_id |-> eventId, channel_id |-> channelId,
                 user_id |-> event.user,
                 message_ts |-> slackTsToDate(TsOf(event), current),
                 raw_event |-> event])

\* Plausible fault: the channel is also looked for under the other kinds' name.
handleFileSharedEitherField(eventId, event, current) ==
  LET channelId == OrElse(event.channel_id, event.channel)
  IN  IF Falsy(channelId) THEN Return("missing_channel")
      ELSE Save("file_events",
                [event_id |-> eventId, channel_id |-> channelId,
                 user_id |-> event.user_id, file_id |-> event.file_id,
                 file_name |-> OrElse(event.file_name, "Unknown"),
                 event_ts |-> slackTsToDate(TsOf(event), current),
                 raw_event |-> event])

\* Plausible fault: the file name is stored as it came.
handleFileSharedNoDefault(eventId, event, current) ==
  LET channelId == event.channel_id
  IN  IF Falsy(channelId) THEN Return("missing_channel")
      ELSE Save("file_events",
                [event_id |-> eventId, channel_id |-> channelId,
                 user_id |-> event.user_id, file_id |-> event.file_id,
                 file_name |-> event.file_name,
                 event_ts |-> slackTsToDate(TsOf(event), current),
                 raw_event |-> event])

handleFileShared(eventId, event, current) ==
  LET channelId == event.channel_id
  IN  IF Falsy(channelId) THEN Return("missing_channel")
      ELSE Save("file_events",
                [event_id |-> eventId, channel_id |-> channelId,
                 user_id |-> event.user_id, file_id |-> event.file_id,
                 file_name |-> OrElse(event.file_name, "Unknown"),
                 event_ts |-> slackTsToDate(TsOf(event), current),
                 raw_event |-> event])

\* Plausible fault: the guard looks at the event body only.
DispatchWithoutIdGuard(payload, current) ==
  IF ~payload.has_event THEN Return("no_op")
  ELSE LET eventId == payload.event_id
           event == payload.event
       IN  CASE event.type = "reaction_added" ->
                  handleReactionAdded(eventId, event, current)
             [] event.type = "member_joined_channel" ->
                  handleMemberJoined(eventId, event, current)
             [] event.type = "member_left_channel" ->
                  handleMemberLeft(eventId, event, current)
             [] event.type = "message" -> handleMessage(eventId, event, current)
             [] event.type = "file_shared" -> handleFileShared(eventId, event, current)
             [] OTHER -> Return("unhandled")

\* Plausible fault: the file_shared case calls the message handler.
DispatchFileAsMessage(payload, current) ==
  IF ~payload.has_event \/ Falsy(payload.event_id) THEN Return("no_op")
  ELSE LET eventId == payload.event_id
           event == payload.event
       IN  CASE event.type = "reaction_added" ->
                  handleReactionAdded(eventId, event, current)
             [] event.type = "member_joined_channel" ->
                  handleMemberJoined(eventId, event, current)
             [] event.type = "member_left_channel" ->
                  handleMemberLeft(eventId, event, current)
             [] event.type \in {"message", "file_shared"} ->
                  handleMessage(eventId, event, current)
             [] OTHER -> Return("unhandled")

\* processSlackEvent up to its first await: the guard and the switch.
Dispatch(payload, current) ==
  IF ~payload.has_event \/ Falsy(payload.event_id) THEN Return("no_op")
  ELSE LET eventId == payload.event_id
           event == payload.event
       IN  CASE event.type = "reaction_added" ->
                  handleReactionAdded(eventId, event, current)
             [] event.type = "member_joined_channel" ->
                  handleMemberJoined(eventId, event, current)
             [] event.type = "member_left_channel" ->
                  handleMemberLeft(eventId, event, current)
             [] event.type = "message" -> handleMessage(eventId, event, current)
             [] event.type = "file_shared" -> handleFileShared(eventId, event, current)
             [] OTHER -> Return("unhandled")

(***************************************************************************)
(* The event tables (db.js) and the save operations (eventsStore.js).      *)
(***************************************************************************)
EventTables == {"reaction_events", "member_events", "message_events", "file_events"}

Table(name) ==
  CASE name = "reaction_events" -> reaction_events
    [] name = "member_events" -> member_events
    [] name = "message_events" -> message_events
    [] name = "file_events" -> file_events

\* Columns declared NOT NULL that the INSERT supplies.
NotNullColumns(name) ==
  CASE name = "reaction_events" ->
         {"event_id", "channel_id", "user_id", "reaction", "event_ts"}
    [] name = "member_events" ->
         {"event_id", "channel_id", "user_id", "event_type", "event_ts"}
    [] name = "message_events" ->
         {"event_id", "channel_id", "user_id", "message_ts"}
    [] name = "file_events" ->
         {"event_id", "channel_id", "user_id", "event_ts"}

ViolatesNotNull(name, row) ==
  \E col \in NotNullColumns(name) \ {"event_ts", "message_ts"} : row[col] = Absent

HasEventId(rows, id) == \E r \in rows : r.event_id = id

\* Plausible faults of the statement: the conflicting row is overwritten; no
\* uniqueness on event_id is enforced.
InsertOnConflictDoUpdate(rows, row) ==
  {r \in rows : r.event_id # row.event_id} \cup {row}
InsertWithoutUnique(rows, row) == rows \cup {row}
\* Plausible fault: ON CONFLICT (event_id) DO UPDATE SET raw_event = EXCLUDED.raw_event
InsertOnConflictUpdateRaw(rows, row) ==
  IF HasEventId(rows, row.event_id)
  THEN {IF r.event_id = row.event_id THEN [r EXCEPT !.raw_event = row.raw_event]
        ELSE r : r \in rows}
  ELSE rows \cup {row}

\* Plausible fault: member_events unique on (event_id, event_type).
InsertOnConflictPerType(rows, row) ==
  IF \E r \in rows :
       /\ r.event_id = row.event_id
       /\ "event_type" \in DOMAIN row => r.event_type = row.event_type
  THEN rows ELSE rows \cup {row}

\* INSERT ... ON CONFLICT (event_id) DO NOTHING, as one statement.
InsertOnConflictDoNothing(rows, row) ==
  IF HasEventId(rows, row.event_id) THEN rows ELSE rows \cup {row}

\* Whether the statement raises: only a NOT NULL violation does.
InsertRaises(name, rows, row) == ViolatesNotNull(name, row)

\* Plausible fault: the catch block throws the rejection again.
HandlerOutcomeRethrows(queryResult) ==
  IF queryResult = "ok" THEN "saved" ELSE "rethrown"

\* The catch block around each save: the rejection is logged, not rethrown.
HandlerOutcome(queryResult) ==
  IF queryResult = "ok" THEN "saved" ELSE "save_failed"

(***************************************************************************)
(* processSlackEvent calls.  A call runs to its first await in one step    *)
(* (Deliver); the store then executes or fails its statement; the handler  *)
(* resumes and the call returns.                                           *)
(***************************************************************************)
CallIds == 1..MaxDeliveries
IdleCall == [pc |-> "idle", req |-> Return("idle")]
\* A request to the events endpoint: not received, being processed, or
\* answered with a status (dropped: the handler threw and nothing answers).
NoRequest == [pc |-> "idle", status |-> 0]

SetTable(name, rows) ==
  /\ reaction_events' = IF name = "reaction_events" THEN rows ELSE reaction_events
  /\ member_events' = IF name = "member_events" THEN rows ELSE member_events
  /\ message_events' = IF name = "message_events" THEN rows ELSE message_events
  /\ file_events' = IF name = "file_events" THEN rows ELSE file_events

Done == Return("done")
Ended(table, eventId, why) == [table |-> table, event_id |-> eventId, why |-> why]

\* processSlackEvent(payload) up to its first await.
Start(c, payload) ==
  /\ calls[c].pc = "idle"
  /\ LET req == Dispatch(payload, Now)
     IN  IF req.op = "save"
         THEN /\ calls' = [calls EXCEPT ![c] = [pc |-> "query", req |-> req]]
              /\ UNCHANGED finished
         ELSE /\ calls' = [calls EXCEPT ![c] = [pc |-> "returned", req |-> Done]]
              /\ finished' = finished \cup {Ended("none", Absent, req.why)}

Deliver(c, payload) ==
  /\ \A d \in CallIds : d < c => calls[d].pc # "idle"
  /\ Start(c, payload)
  /\ UNCHANGED <<http, tables, jobVars, envVars, win>>

\* pool.query settles: the INSERT ran, or raised.
QueryExecutes(c) ==
  /\ calls[c].pc = "query"
  /\ LET name == calls[c].req.table
         row == calls[c].req.row
     IN  IF InsertRaises(name, Table(name), row)
         THEN /\ calls' = [calls EXCEPT ![c].pc = "rejected"]
              /\ UNCHANGED tables
         ELSE /\ calls' = [calls EXCEPT ![c].pc = "resolved"]
              /\ SetTable(name, InsertOnConflictDoNothing(Table(name), row))
  /\ UNCHANGED <<finished, http, jobVars, envVars, win>>

\* pool.query rejects for a reason of the store's own (connection lost, ...).
QueryFails(c) ==
  /\ calls[c].pc = "query"
  /\ calls' = [calls EXCEPT ![c].pc = "rejected"]
  /\ UNCHANGED <<tables, finished, http, jobVars, envVars, win>>

\* The handler resumes after its await and processSlackEvent returns.  Of a
\* finished call the model keeps the table, the event id and how it ended.
Settled(c) == HandlerOutcome(IF calls[c].pc = "resolved" THEN "ok" ELSE "error")
Finish(c) ==
  /\ calls[c].pc \in {"resolved", "rejected"}
  /\ LET why == Settled(c)
     IN  /\ calls' = [calls EXCEPT ![c] =
                        [pc |-> IF why = "rethrown" THEN "threw" ELSE "returned",
                         req |-> Done]]
         /\ finished' = finished \cup
               {Ended(calls[c].req.table, calls[c].req.row.event_id, why)}

Resume(c) ==
  /\ Finish(c)
  /\ UNCHANGED <<http, tables, jobVars, envVars, win>>

Tick ==
  /\ now + 1 < Len(Clock)
  /\ now' = now + 1
  /\ UNCHANGED <<tables, callVars, jobVars, config, processTz, win>>

NoWindow == [op |-> "none"]

\* config.js: the channel, the timezone (default 'Asia/Kolkata'), the token
\* and the signing secret (unset: '').
Config(channel, tz, token) ==
  [slackChannelId |-> channel, timezone |-> tz, slackBotToken |-> token,
   slackSigningSecret |-> ""]
DefaultConfig == Config("C1", "Asia/Kolkata", "xoxb-token")

\* Plausible fault: only an undefined channel is taken as missing.
MissingChannelUndefinedOnly(cfg) == cfg.slackChannelId = Absent

\* if (!config.slackChannelId) of collectStatsForDate
MissingChannel(cfg) == Falsy(cfg.slackChannelId)

\* A runDailySummaryJob run that has not started.  started counts the
\* invocations of the trigger, posts the chat.postMessage calls of its
\* latest invocation.
Triggers == {"timer", "manual"}
NoSummary ==
  [channelId |-> Absent, statDate |-> [year |-> 0, month |-> 0, day |-> 0],
   reactionCount |-> 0, newMemberCount |-> 0, memberRemovedCount |-> 0,
   messageCount |-> 0, fileUploadCount |-> 0]
NoRange == [start |-> Instant(0, 0), end |-> Instant(0, 0)]
\* No response sent (yet, or the run is the timer's).
NoResponse == [status |-> 0, success |-> FALSE]
IdleRun ==
  [pc |-> "idle", summary |-> NoSummary, range |-> NoRange, pending |-> {},
   messageTs |-> Absent, outcome |-> "none", started |-> 0, posts |-> 0,
   response |-> NoResponse]

Init ==
  /\ reaction_events = {}
  /\ member_events = {}
  /\ message_events = {}
  /\ file_events = {}
  /\ daily_summaries = {}
  /\ calls = [c \in CallIds |-> IdleCall]
  /\ finished = {}
  /\ http = [c \in CallIds |-> NoRequest]
  /\ config = DefaultConfig
  /\ now = 0
  /\ processTz = "UTC"
  /\ runs = [r \in Triggers |-> IdleRun]
  /\ posted = <<>>
  /\ fresh = {}
  /\ win = NoWindow

Next ==
  \/ \E c \in CallIds, payload \in Payloads : Deliver(c, payload)
  \/ \E c \in CallIds : QueryExecutes(c)
  \/ \E c \in CallIds : QueryFails(c)
  \/ \E c \in CallIds : Resume(c)

Spec == Init /\ [][Next]_vars

(***************************************************************************)
(* POST /api/slack/events (server.js).  The repository holds two builds of *)
(* the route: one verifies every request in the verifySlackSignature       *)
(* middleware, the other verifies event callbacks inside the handler.      *)
(* A request is its raw body, and its two signature headers.               *)
(***************************************************************************)
SigningSecret == "s3cret"
FiveMinutes == 60 * 5

\* x-slack-request-timestamp: missing, not a number, or seconds since epoch
NoStamp == [kind |-> "absent", sec |-> 0]
NaNStamp == [kind |-> "nan", sec |-> 0]
Stamp(sec) == [kind |-> "num", sec |-> sec]
EpochSeconds(t) == t.day * SecondsPerDay + t.ms \div MsPerSecond

\* Plausible fault: only requests from the past are taken as stale.
IsStalePastOnly(current, timestamp) ==
  \/ timestamp.kind = "nan"
  \/ (EpochSeconds(current) - timestamp.sec) * MsPerSecond
       + (current.ms % MsPerSecond) > FiveMinutes * MsPerSecond

\* Number.isNaN(ts) || Math.abs(Date.now() / 1000 - ts) > 60 * 5
IsStale(current, timestamp) ==
  \/ timestamp.kind = "nan"
  \/ LET age == (EpochSeconds(current) - timestamp.sec) * MsPerSecond
                  + (current.ms % MsPerSecond)
     IN  (IF age < 0 THEN 0 - age ELSE age) > FiveMinutes * MsPerSecond

\* `v0=` and the hex HMAC-SHA256 of `v0:${timestamp}:${rawBody}` under the
\* key: two digests are equal only for the same key, timestamp and body.
Hmac(key, timestamp, rawBody) ==
  [kind |-> "v0", key |-> key, ts |-> timestamp, body |-> rawBody]
\* A missing x-slack-signature, and one that is not as long as a digest.
NoSignature(timestamp, rawBody) ==
  [kind |-> "absent", key |-> "", ts |-> timestamp, body |-> rawBody]
ShortSignature(timestamp, rawBody) ==
  [kind |-> "short", key |-> "", ts |-> timestamp, body |-> rawBody]

\* The staleness test and the comparison of the computed signature with the
\* header; crypto.timingSafeEqual throws on buffers of different lengths.
CheckSignature(cfg, current, req) ==
  IF IsStale(current, req.timestamp) THEN "400"
  ELSE IF req.signature.kind = "short" THEN "throw"
  ELSE IF Hmac(cfg.slackSigningSecret, req.timestamp, req.rawBody) # req.signature
       THEN "400"
  ELSE "next"

MissingHeaders(req) ==
  req.signature.kind = "absent" \/ req.timestamp.kind = "absent"

\* The middleware of the first build.
verifySlackSignature(cfg, current, req) ==
  IF Falsy(cfg.slackSigningSecret) THEN "next"
  ELSE IF MissingHeaders(req) THEN "400"
  ELSE CheckSignature(cfg, current, req)

\* The checks inside the handler of the second build.
InlineVerification(cfg, current, req) ==
  IF req.rawBody.type # "event_callback" THEN "next"
  ELSE IF MissingHeaders(req) THEN "400"
  ELSE IF Falsy(cfg.slackSigningSecret) THEN "next"
  ELSE CheckSignature(cfg, current, req)

\* Plausible fault: a failed save is reported to the sender.
EventsResponseReportsFailure(why) == IF why = "save_failed" THEN 500 ELSE 200

\* res.status(200).send() after the try/catch around processSlackEvent
EventsResponse(why) == 200

Processing == [pc |-> "processing", status |-> 0]
Answered(status) == [pc |-> "responded", status |-> status]
\* The handler threw inside an async route: nothing answers the request.
Dropped == [pc |-> "dropped", status |-> 0]

\* The route handler once the request is let through: the challenge is
\* echoed, an event callback is processed and then acknowledged, any other
\* type is logged and acknowledged.
Handle(c, req) ==
  IF req.rawBody.type = "event_callback"
  THEN /\ Start(c, req.rawBody.envelope)
       /\ LET r == Dispatch(req.rawBody.envelope, Now)
          IN  http' = [http EXCEPT ![c] =
                         IF r.op = "save" THEN Processing
                         ELSE Answered(EventsResponse(r.why))]
  ELSE /\ http' = [http EXCEPT ![c] = Answered(200)]
       /\ UNCHANGED <<calls, finished>>

Refuse(c, answer) ==
  /\ http' = [http EXCEPT ![c] = answer]
  /\ UNCHANGED <<calls, finished>>

ReceiveMiddleware(c, req) ==
  /\ http[c].pc = "idle" /\ calls[c].pc = "idle"
  /\ \A d \in CallIds : d < c => http[d].pc # "idle"
  /\ LET v == verifySlackSignature(config, Now, req)
     IN  CASE v = "next" -> Handle(c, req)
           [] v = "400" -> Refuse(c, Answered(400))
           [] v = "throw" -> Refuse(c, Answered(500))
  /\ UNCHANGED <<tables, jobVars, envVars, win>>

\* A throw inside the async handler is a rejected promise: the framework
\* answers 500 or does not answer, depending on its version.
ReceiveInline(c, req) ==
  /\ http[c].pc = "idle" /\ calls[c].pc = "idle"
  /\ \A d \in CallIds : d < c => http[d].pc # "idle"
  /\ LET v == InlineVerification(config, Now, req)
     IN  CASE v = "next" -> Handle(c, req)
           [] v = "400" -> Refuse(c, Answered(400))
           [] v = "throw" ->
                \E answer \in {Answered(500), Dropped} : Refuse(c, answer)
  /\ UNCHANGED <<tables, jobVars, envVars, win>>

\* processSlackEvent returns to the handler, which acknowledges.
Respond(c) ==
  /\ http[c].pc = "processing"
  /\ Finish(c)
  /\ http' = [http EXCEPT ![c] = Answered(EventsResponse(Settled(c)))]
  /\ UNCHANGED <<tables, jobVars, envVars, win>>

\* The envelopes sent: a reaction, a file, a bot message, a reaction without
\* channel, a reaction without user and an event of another kind.
HttpEnvelopes ==
  {[event_id |-> "Ev1", has_event |-> TRUE, event |-> ReactionBody],
   [event_id |-> "Ev2", has_event |-> TRUE, event |-> FileBody],
   [event_id |-> "Ev1", has_event |-> TRUE,
    event |-> [MessageBody EXCEPT !.bot_id = "B1"]],
   [event_id |-> "Ev1", has_event |-> TRUE,
    event |-> [ReactionBody EXCEPT !.item_channel = Absent]],
   [event_id |-> "Ev1", has_event |-> TRUE,
    event |-> [ReactionBody EXCEPT !.user = Absent]],
   [event_id |-> "Ev1", has_event |-> TRUE, event |-> EmptyBody("app_mention")]}

NoEnvelope == [event_id |-> Absent, has_event |-> FALSE, event |-> EmptyBody(Absent)]
RawBody(type, envelope) == [type |-> type, envelope |-> envelope, pad |-> 0]
EventBodies == {RawBody("event_callback", e) : e \in HttpEnvelopes}
OtherBodies ==
  {RawBody("url_verification", NoEnvelope), RawBody("app_rate_limited", NoEnvelope)}

\* The same JSON with other white space.
Respaced(rawBody) == [rawBody EXCEPT !.pad = 1]

Stamps ==
  {NoStamp, NaNStamp} \cup
  {Stamp(EpochSeconds(Now) + d) :
     d \in {0, 0 - FiveMinutes, 0 - FiveMinutes - 1, FiveMinutes, FiveMinutes + 1}}

\* What the sender can put in x-slack-signature: nothing, a string of
\* another length, Slack's signature of this request, and digests under
\* another key, of another timestamp, of another body.
Signatures(timestamp, rawBody) ==
  {NoSignature(timestamp, rawBody), ShortSignature(timestamp, rawBody),
   Hmac(SigningSecret, timestamp, rawBody),
   Hmac("guess", timestamp, rawBody),
   Hmac(SigningSecret, Stamp(EpochSeconds(Now)), rawBody),
   Hmac(SigningSecret, timestamp, Respaced(rawBody))}

\* Event callbacks with every timestamp and signature; the other types
\* unsigned, or signed by Slack just now.
Requests ==
  UNION {{[rawBody |-> b, timestamp |-> t, signature |-> g] :
            g \in Signatures(t, b)} : b \in EventBodies, t \in Stamps}
  \cup {[rawBody |-> b, timestamp |-> NoStamp,
         signature |-> NoSignature(NoStamp, b)] : b \in OtherBodies}
  \cup {[rawBody |-> b, timestamp |-> Stamp(EpochSeconds(Now)),
         signature |-> Hmac(SigningSecret, Stamp(EpochSeconds(Now)), b)] :
           b \in OtherBodies}

InitHttp ==
  /\ reaction_events = {}
  /\ member_events = {}
  /\ message_events = {}
  /\ file_events = {}
  /\ daily_summaries = {}
  /\ calls = [c \in CallIds |-> IdleCall]
  /\ finished = {}
  /\ http = [c \in CallIds |-> NoRequest]
  /\ config \in {DefaultConfig,
                 [DefaultConfig EXCEPT !.slackSigningSecret = SigningSecret]}
  /\ now = 0
  /\ processTz = "UTC"
  /\ runs = [r \in Triggers |-> IdleRun]
  /\ posted = <<>>
  /\ fresh = {}
  /\ win = NoWindow

NextHttp ==
  \/ \E c \in CallIds, req \in Requests : ReceiveMiddleware(c, req)
  \/ \E c \in CallIds, req \in Requests : ReceiveInline(c, req)
  \/ \E c \in CallIds : QueryExecutes(c)
  \/ \E c \in CallIds : QueryFails(c)
  \/ \E c \in CallIds : Respond(c)

SpecHttp == InitHttp /\ [][NextHttp]_vars

(***************************************************************************)
(* Range counts (eventsStore.js): the number of rows of one channel with   *)
(* start <= timestamp <= end.                                              *)
(***************************************************************************)
\* Plausible fault: the upper end of the interval is excluded.
InRangeEndExclusive(t, start, end) == Leq(start, t) /\ Leq(t, end) /\ t # end

InRange(t, start, end) == Leq(start, t) /\ Leq(t, end)

\* Plausible fault: the interval condition left out.
countReactionsBetweenAnyTime(rows, channelId, start, end) ==
  Cardinality({r \in rows : r.channel_id = channelId})

countReactionsBetween(rows, channelId, start, end) ==
  Cardinality({r \in rows : r.channel_id = channelId /\ InRange(r.event_ts, start, end)})

\* Plausible fault: the event_type condition left out.
countNewMembersBetweenAnyType(rows, channelId, start, end) ==
  Cardinality({r \in rows : r.channel_id = channelId /\ InRange(r.event_ts, start, end)})

countNewMembersBetween(rows, channelId, start, end) ==
  Cardinality({r \in rows : /\ r.channel_id = channelId
                            /\ r.event_type = "member_joined_channel"
                            /\ InRange(r.event_ts, start, end)})

countMembersRemovedBetween(rows, channelId, start, end) ==
  Cardinality({r \in rows : /\ r.channel_id = channelId
                            /\ r.event_type = "member_left_channel"
                            /\ InRange(r.event_ts, start, end)})

\* Plausible fault: the channel condition left out.
countMessagesBetweenAnyChannel(rows, channelId, start, end) ==
  Cardinality({r \in rows : InRange(r.message_ts, start, end)})

countMessagesBetween(rows, channelId, start, end) ==
  Cardinality({r \in rows : r.channel_id = channelId /\ InRange(r.message_ts, start, end)})

countFileUploadsBetween(rows, channelId, start, end) ==
  Cardinality({r \in rows : r.channel_id = channelId /\ InRange(r.event_ts, start, end)})

(***************************************************************************)
(* The day window (statsService.js).  A calendar date is                   *)
(* [year, month, day], the fields of the "YYYY-MM-DD" string.              *)
(***************************************************************************)
\* The instant shifted to the zone's wall clock, read as if it were UTC.
WallClock(t, tz) ==
  LET m == t.ms + TzOffsetMinutes(tz) * MsPerMinute
  IN  IF m < 0 THEN Instant(t.day - 1, m + MsPerDay)
      ELSE IF m >= MsPerDay THEN Instant(t.day + 1, m - MsPerDay)
      ELSE Instant(t.day, m)

\* Intl.DateTimeFormat('en-CA', {timeZone, year, month, day}).format(date)
FormatDate(date, tz) == CivilFromDays(WallClock(date, tz).day)

getTimezoneDateParts(date, tz) == FormatDate(date, tz)

\* Date.UTC(year, month - 1, day, h, m, s, ms), monthIndex being month - 1
DateUTC(year, monthIndex, day, msOfDay) ==
  Instant(DaysFromCivil(year, monthIndex + 1, day), msOfDay)

EndOfDayMs == ((23 * 60 + 59) * 60 + 59) * MsPerSecond + 999

\* The variant of the second copy in the file: setHours(0, 0, 0, 0) and
\* setHours(23, 59, 59, 999) on the wall clock of the process.
getDayRangeLocal(targetDate, tz) ==
  LET local == WallClock(targetDate, processTz)
      shift == 0 - TzOffsetMinutes(processTz) * MsPerMinute
  IN  [start |-> PlusMs(Instant(local.day, 0), shift),
       end   |-> PlusMs(Instant(local.day, EndOfDayMs), shift)]

\* Plausible variant: the window of the zone's own midnight-to-midnight day.
getDayRangeZoned(targetDate, tz) ==
  LET parts == getTimezoneDateParts(targetDate, tz)
      shift == 0 - TzOffsetMinutes(tz) * MsPerMinute
  IN  [start |-> PlusMs(DateUTC(parts.year, parts.month - 1, parts.day, 0), shift),
       end   |-> PlusMs(DateUTC(parts.year, parts.month - 1, parts.day, EndOfDayMs),
                        shift)]

getDayRange(targetDate, tz) ==
  LET parts == getTimezoneDateParts(targetDate, tz)
  IN  [start |-> DateUTC(parts.year, parts.month - 1, parts.day, 0),
       end   |-> DateUTC(parts.year, parts.month - 1, parts.day, EndOfDayMs)]

\* The five range counts of collectStatsForDate, in the order of its
\* Promise.all.
CountKinds == <<"reactionCount", "newMemberCount", "memberRemovedCount",
                "messageCount", "fileUploadCount">>

\* Plausible fault: the results are destructured in another order than the
\* queries are listed.
CountOfMisplaced(kind, channelId, start, end) ==
  CASE kind = "messageCount" ->
         countReactionsBetween(reaction_events, channelId, start, end)
    [] kind = "newMemberCount" ->
         countNewMembersBetween(member_events, channelId, start, end)
    [] kind = "memberRemovedCount" ->
         countMembersRemovedBetween(member_events, channelId, start, end)
    [] kind = "reactionCount" ->
         countMessagesBetween(message_events, channelId, start, end)
    [] kind = "fileUploadCount" ->
         countFileUploadsBetween(file_events, channelId, start, end)

CountOf(kind, channelId, start, end) ==
  CASE kind = "reactionCount" ->
         countReactionsBetween(reaction_events, channelId, start, end)
    [] kind = "newMemberCount" ->
         countNewMembersBetween(member_events, channelId, start, end)
    [] kind = "memberRemovedCount" ->
         countMembersRemovedBetween(member_events, channelId, start, end)
    [] kind = "messageCount" ->
         countMessagesBetween(message_events, channelId, start, end)
    [] kind = "fileUploadCount" ->
         countFileUploadsBetween(file_events, channelId, start, end)

Thrown(message) == [threw |-> TRUE, error |-> message]

\* collectStatsForDate when no row is written while its five counts run.
collectStatsForDate(targetDate) ==
  IF MissingChannel(config)
  THEN Thrown("SLACK_CHANNEL_ID is not configured.")
  ELSE LET timezone == OrElse(config.timezone, "UTC")
           statDate == FormatDate(targetDate, timezone)
           range == getDayRange(targetDate, timezone)
           count(kind) == CountOf(kind, config.slackChannelId, range.start, range.end)
       IN  [threw |-> FALSE,
            channelId |-> config.slackChannelId,
            statDate |-> statDate,
            reactionCount |-> count("reactionCount"),
            newMemberCount |-> count("newMemberCount"),
            memberRemovedCount |-> count("memberRemovedCount"),
            messageCount |-> count("messageCount"),
            fileUploadCount |-> count("fileUploadCount")]

(***************************************************************************)
(* SpecWindow: the day window and the range counts applied to stores and   *)
(* arguments drawn from bounded sets.                                      *)
(***************************************************************************)
\* Instants around 2024-01-15: the ends of that day in UTC and in
\* Asia/Kolkata, their neighbours one millisecond off, and two inner ones.
Jan15 == DaysFromCivil(2024, 1, 15)
KolkataMidnight == Instant(Jan15 - 1, (18 * 60 + 30) * 60 * MsPerSecond)
KolkataDayEnd == Instant(Jan15, (18 * 60 + 30) * 60 * MsPerSecond - 1)
UtcMidnight == Instant(Jan15, 0)
UtcDayEnd == Instant(Jan15, MsPerDay - 1)
At(day, h, m, sec) == Instant(day, ((h * 60 + m) * 60 + sec) * MsPerSecond)

ReactionRow(id, channelId, t) ==
  [event_id |-> id, channel_id |-> channelId, user_id |-> "U1",
   reaction |-> "thumbsup", event_ts |-> t, raw_event |-> ReactionBody]
MemberRow(id, channelId, type, t) ==
  [event_id |-> id, channel_id |-> channelId, user_id |-> "U1",
   event_type |-> type, event_ts |-> t, raw_event |-> MemberBody(type)]
MessageRow(id, channelId, t) ==
  [event_id |-> id, channel_id |-> channelId, user_id |-> "U1",
   message_ts |-> t, raw_event |-> MessageBody]
FileRow(id, channelId, t) ==
  [event_id |-> id, channel_id |-> channelId, user_id |-> "U1", file_id |-> "F1",
   file_name |-> "document.pdf", event_ts |-> t, raw_event |-> FileBody]

\* The three reactions of the end-to-end scenario.
ScenarioReactions ==
  {ReactionRow("Ev1", "C1", At(Jan15 - 1, 19, 0, 0)),
   ReactionRow("Ev2", "C1", At(Jan15, 10, 0, 0)),
   ReactionRow("Ev3", "C1", At(Jan15, 18, 29, 59))}

ReactionPool ==
  ScenarioReactions \cup
  {ReactionRow("Ev4", "C1", UtcDayEnd),
   ReactionRow("Ev5", "C2", At(Jan15, 10, 0, 0))}
MemberPool ==
  {MemberRow("Ev1", "C1", "member_joined_channel", UtcMidnight),
   MemberRow("Ev2", "C1", "member_left_channel", At(Jan15, 10, 0, 0)),
   MemberRow("Ev3", "C2", "member_joined_channel", At(Jan15, 10, 0, 0))}
MessagePool ==
  {MessageRow("Ev1", "C1", KolkataDayEnd),
   MessageRow("Ev2", "C2", At(Jan15, 10, 0, 0))}
FilePool ==
  {FileRow("Ev1", "C1", PlusMs(UtcMidnight, -1)),
   FileRow("Ev2", "C1", UtcDayEnd)}

\* The intervals counted over: the day in UTC and in Asia/Kolkata, an interval
\* with both ends on stored timestamps, and an empty one.
Ranges ==
  {<<UtcMidnight, UtcDayEnd>>, <<KolkataMidnight, KolkataDayEnd>>,
   <<At(Jan15 - 1, 19, 0, 0), At(Jan15, 10, 0, 0)>>,
   <<UtcDayEnd, UtcMidnight>>}
\* Target dates: new Date('2024-01-15'), and instants late and early in that
\* UTC day.
TargetDates == {UtcMidnight, At(Jan15, 20, 0, 0), At(Jan15, 3, 0, 0)}

InitWindow ==
  /\ reaction_events \in SUBSET ReactionPool
  /\ member_events \in {{}, MemberPool}
  /\ message_events \in {{}, MessagePool}
  /\ file_events \in {{}, FilePool}
  /\ daily_summaries = {}
  /\ calls = [c \in CallIds |-> IdleCall]
  /\ finished = {}
  /\ http = [c \in CallIds |-> NoRequest]
  /\ config \in {Config("C1", tz, "xoxb-token") : tz \in TimeZones}
  /\ now = 0
  /\ processTz = "UTC"
  /\ runs = [r \in Triggers |-> IdleRun]
  /\ posted = <<>>
  /\ fresh = {}
  /\ win = NoWindow

ApplyGetDayRange(targetDate, tz) ==
  /\ win = NoWindow
  /\ win' = [op |-> "getDayRange", targetDate |-> targetDate, tz |-> tz,
             result |-> getDayRange(targetDate, tz)]
  /\ UNCHANGED <<tables, callVars, jobVars, envVars>>

ApplyCollect(targetDate) ==
  /\ win = NoWindow
  /\ win' = [op |-> "collectStatsForDate", targetDate |-> targetDate,
             result |-> collectStatsForDate(targetDate)]
  /\ UNCHANGED <<tables, callVars, jobVars, envVars>>

ApplyCount(kind, channelId, start, end) ==
  /\ win = NoWindow
  /\ win' = [op |-> "count", kind |-> kind, channelId |-> channelId,
             start |-> start, end |-> end,
             result |-> CountOf(kind, channelId, start, end)]
  /\ UNCHANGED <<tables, callVars, jobVars, envVars>>

NextWindow ==
  \/ \E targetDate \in TargetDates, tz \in TimeZones : ApplyGetDayRange(targetDate, tz)
  \/ \E targetDate \in TargetDates : ApplyCollect(targetDate)
  \/ \E k \in 1..Len(CountKinds), channelId \in {"C1", "C2"}, range \in Ranges :
       ApplyCount(CountKinds[k], channelId, range[1], range[2])

SpecWindow == InitWindow /\ [][NextWindow]_vars

(***************************************************************************)
(* The summary table (db.js) and its upsert (eventsStore.js).              *)
(***************************************************************************)
SummaryKey(row) == <<row.channel_id, row.stat_date>>
SummariesAt(rows, channelId, statDate) ==
  {r \in rows : r.channel_id = channelId /\ r.stat_date = statDate}

\* The row of the VALUES clause: `|| 0` and `|| null` applied.
ProposedRow(p) ==
  [channel_id |-> p.channelId, stat_date |-> p.statDate,
   reaction_count |-> p.reactionCount,
   new_member_count |-> p.newMemberCount,
   member_removed_count |-> p.memberRemovedCount,
   message_count |-> p.messageCount,
   file_upload_count |-> p.fileUploadCount,
   message_ts |-> IF Falsy(p.messageTs) THEN Absent ELSE p.messageTs]

\* COALESCE(EXCLUDED.message_ts, daily_summaries.message_ts)
Coalesce(x, y) == IF x = Absent THEN y ELSE x

\* Plausible faults of the statement: counts added to the stored ones; the
\* reference overwritten by a null; a conflicting row left as it is; no
\* uniqueness on (channel_id, stat_date).
saveDailySummaryIncrement(rows, p) ==
  LET new == ProposedRow(p)
      old == SummariesAt(rows, new.channel_id, new.stat_date)
  IN  IF old = {} THEN rows \cup {new}
      ELSE (rows \ old) \cup
           {[new EXCEPT !.reaction_count = @ + o.reaction_count,
                        !.new_member_count = @ + o.new_member_count,
                        !.member_removed_count = @ + o.member_removed_count,
                        !.message_count = @ + o.message_count,
                        !.file_upload_count = @ + o.file_upload_count,
                        !.message_ts = Coalesce(new.message_ts, o.message_ts)]
              : o \in old}
saveDailySummaryNoCoalesce(rows, p) ==
  LET new == ProposedRow(p)
  IN  (rows \ SummariesAt(rows, new.channel_id, new.stat_date)) \cup {new}
saveDailySummaryDoNothing(rows, p) ==
  LET new == ProposedRow(p)
  IN  IF SummariesAt(rows, new.channel_id, new.stat_date) = {}
      THEN rows \cup {new} ELSE rows
saveDailySummaryNoUnique(rows, p) == rows \cup {ProposedRow(p)}

\* INSERT ... ON CONFLICT (channel_id, stat_date) DO UPDATE SET ..., as one
\* statement: the rows of the table afterwards.
saveDailySummary(rows, p) ==
  LET new == ProposedRow(p)
      old == SummariesAt(rows, new.channel_id, new.stat_date)
  IN  IF old = {} THEN rows \cup {new}
      ELSE (rows \ old) \cup
           {[new EXCEPT !.message_ts = Coalesce(new.message_ts, o.message_ts)]
              : o \in old}

\* RETURNING *: the row of the key as stored by the statement.
Returning(rowsAfter, p) ==
  CHOOSE r \in rowsAfter : r.channel_id = p.channelId /\ r.stat_date = p.statDate

\* Plausible fault: the reference is not handed on to the upsert.
PersistParamsWithoutRef(summary, messageTs) ==
  [channelId |-> summary.channelId, statDate |-> summary.statDate,
   reactionCount |-> summary.reactionCount,
   newMemberCount |-> summary.newMemberCount,
   memberRemovedCount |-> summary.memberRemovedCount,
   messageCount |-> summary.messageCount,
   fileUploadCount |-> summary.fileUploadCount,
   messageTs |-> Absent]

PersistParams(summary, messageTs) ==
  [channelId |-> summary.channelId, statDate |-> summary.statDate,
   reactionCount |-> summary.reactionCount,
   newMemberCount |-> summary.newMemberCount,
   memberRemovedCount |-> summary.memberRemovedCount,
   messageCount |-> summary.messageCount,
   fileUploadCount |-> summary.fileUploadCount,
   messageTs |-> messageTs]

\* persistSummary: the table afterwards.
persistSummary(rows, summary, messageTs) ==
  saveDailySummary(rows, PersistParams(summary, messageTs))

(***************************************************************************)
(* SpecPersist: collectStatsForDate and persistSummary called one after    *)
(* the other, and persistSummary called with summaries and references      *)
(* drawn from bounded sets, while events are stored in between.            *)
(***************************************************************************)
SummaryOf(channelId, statDate, rc, nm, mr, mc, fu) ==
  [channelId |-> channelId, statDate |-> statDate, reactionCount |-> rc,
   newMemberCount |-> nm, memberRemovedCount |-> mr, messageCount |-> mc,
   fileUploadCount |-> fu]
Date(y, m, d) == [year |-> y, month |-> m, day |-> d]

PersistPool ==
  {ReactionRow("Ev1", "C1", At(Jan15, 10, 0, 0)),
   MessageRow("Ev1", "C1", At(Jan15, 10, 0, 0)),
   FileRow("Ev1", "C1", At(Jan15 + 1, 10, 0, 0))}
PoolTable(row) ==
  IF "reaction" \in DOMAIN row THEN "reaction_events"
  ELSE IF "event_type" \in DOMAIN row THEN "member_events"
  ELSE IF "message_ts" \in DOMAIN row THEN "message_events"
  ELSE "file_events"

PersistSummaries ==
  {SummaryOf("C1", Date(2024, 1, 15), 0, 0, 0, 0, 0),
   SummaryOf("C1", Date(2024, 1, 15), 5, 4, 3, 2, 1),
   SummaryOf("C1", Date(2024, 1, 16), 1, 2, 3, 4, 5)}
\* What postSummary returns: null, or the ts of the message posted.
PostRefs == <<"1705400000.000100", "1705400001.000200", "1705400002.000300",
              "1705400003.000400">>
PersistRefs == {Absent, PostRefs[1], PostRefs[2]}
PersistDates == {UtcMidnight, At(Jan15 + 1, 0, 0, 0)}

\* save<Kind>Event of a row not yet stored.
StoreEvent(row) ==
  /\ ~HasEventId(Table(PoolTable(row)), row.event_id)
  /\ SetTable(PoolTable(row), InsertOnConflictDoNothing(Table(PoolTable(row)), row))
  /\ fresh' = {}
  /\ UNCHANGED <<daily_summaries, runs, posted, callVars, envVars, win>>

\* The record of one persistSummary call: its arguments, the rows of the key
\* before it, and the row it returned.
Persisted(rowsBefore, rowsAfter, summary, messageTs) ==
  [op |-> "persistSummary", summary |-> summary, messageTs |-> messageTs,
   before |-> SummariesAt(rowsBefore, summary.channelId, summary.statDate),
   result |-> Returning(rowsAfter, PersistParams(summary, messageTs))]

\* How often in a row a key was collected and persisted with no event written
\* and no other persist of the key in between: once, or twice and more.
Times(key) == IF \E f \in fresh : f.key = key /\ f.times = "once" THEN "twice"
              ELSE IF \E f \in fresh : f.key = key THEN "twice" ELSE "once"

\* persistSummary(summary, messageTs)
ApplyPersist(summary, messageTs) ==
  /\ daily_summaries' = persistSummary(daily_summaries, summary, messageTs)
  /\ win' = Persisted(daily_summaries, daily_summaries', summary, messageTs)
  /\ fresh' = {f \in fresh : f.key # <<summary.channelId, summary.statDate>>}
  /\ UNCHANGED <<tables, runs, posted, callVars, envVars>>

\* summary = await collectStatsForDate(targetDate);
\* await persistSummary(summary, messageTs), nothing else running.
CollectThenPersist(targetDate, messageTs) ==
  LET summary == collectStatsForDate(targetDate)
      key == <<summary.channelId, summary.statDate>>
  IN  /\ ~summary.threw
      /\ daily_summaries' = persistSummary(daily_summaries, summary, messageTs)
      /\ win' = Persisted(daily_summaries, daily_summaries', summary, messageTs)
      /\ fresh' = {f \in fresh : f.key # key}
                    \cup {[key |-> key, times |-> Times(key)]}
      /\ UNCHANGED <<tables, runs, posted, callVars, envVars>>

NextPersist ==
  \/ \E row \in PersistPool : StoreEvent(row)
  \/ \E summary \in PersistSummaries, messageTs \in PersistRefs :
       ApplyPersist(summary, messageTs)
  \/ \E targetDate \in PersistDates, messageTs \in PersistRefs :
       CollectThenPersist(targetDate, messageTs)

SpecPersist == Init /\ [][NextPersist]_vars

(***************************************************************************)
(* Properties of event ingestion, under Spec.                              *)
(***************************************************************************)
InFlight(c) == calls[c].pc \in {"query", "resolved", "rejected"}
Quiescent == \A c \in CallIds : ~InFlight(c)
RowsWithId(name, id) == {r \in Table(name) : r.event_id = id}
\* The store executes the statement of call c, whose event id is already stored.
DuplicateInsert(c) ==
  /\ QueryExecutes(c)
  /\ HasEventId(Table(calls[c].req.table), calls[c].req.row.event_id)
HasNull(name, row) ==
  \E col \in NotNullColumns(name) \ {"event_ts", "message_ts"} : row[col] = Absent

\* C1 (as stated): a save whose event id is already stored in its table never
\* raises and leaves the four tables as they were.
C1_DuplicateNeverRaises ==
  [][\A c \in CallIds :
       DuplicateInsert(c) => (calls'[c].pc = "resolved" /\ UNCHANGED tables)]_vars

\* C1 (amended): a save whose event id is already stored leaves the tables as
\* they were (one row with that id, every field of it unchanged); it raises
\* exactly when the new record has a null in a NOT NULL column, and no call of
\* processSlackEvent ever ends by throwing.
C1_DedupIdempotent ==
  [][/\ \A c \in CallIds :
          DuplicateInsert(c) =>
            /\ UNCHANGED tables
            /\ Cardinality(RowsWithId(calls[c].req.table,
                                      calls[c].req.row.event_id)) = 1
            /\ (calls'[c].pc = "resolved"
                  <=> ~HasNull(calls[c].req.table, calls[c].req.row))
     /\ \A c \in CallIds : calls'[c].pc # "threw"]_vars

\* A second delivery of a stored id, with other field values, has been absorbed.
C1_Witness ==
  \E c \in CallIds :
    /\ calls[c].pc = "resolved"
    /\ HasEventId(Table(calls[c].req.table), calls[c].req.row.event_id)
    /\ calls[c].req.row \notin Table(calls[c].req.table)

\* C2: whatever the interleaving of the calls, no event table ever holds two
\* rows with one event id, and when no call is in flight every id that a save
\* completed for has exactly one row in its table.
C2_UniqueEventIds ==
  /\ \A name \in EventTables : \A r1, r2 \in Table(name) :
       r1.event_id = r2.event_id => r1 = r2
  /\ Quiescent =>
       \A e \in finished :
         e.why = "saved" => Cardinality(RowsWithId(e.table, e.event_id)) = 1

\* Two deliveries of one id with different contents were in flight together
\* and both inserts have run.
C2_Witness ==
  \E c1, c2 \in CallIds :
    /\ c1 # c2
    /\ calls[c1].pc = "resolved" /\ calls[c2].pc = "resolved"
    /\ calls[c1].req.table = calls[c2].req.table
    /\ calls[c1].req.row.event_id = calls[c2].req.row.event_id
    /\ calls[c1].req.row # calls[c2].req.row
    /\ Cardinality(RowsWithId(calls[c1].req.table, calls[c1].req.row.event_id)) = 1

CarriesMarker(event) == event.subtype # Absent \/ event.bot_id # Absent

\* C3: no row of the message table comes from a message that carried a
\* subtype or a bot_id, and delivering such a message issues no save: the
\* call returns at once and the message table is as it was.
C3_SkipCorrectness ==
  [][/\ \A r \in message_events' : ~CarriesMarker(r.raw_event)
     /\ \A c \in CallIds, p \in Payloads :
          (p.has_event /\ p.event.type = "message" /\ CarriesMarker(p.event)
             /\ calls'[c] # calls[c] /\ calls[c].pc = "idle" /\ Deliver(c, p))
            => (calls'[c].pc = "returned" /\ message_events' = message_events)]_vars

\* A marked message was delivered and skipped while a plain one is stored.
C3_Witness ==
  /\ \E e \in finished : e.why = "filtered"
  /\ message_events # {}
  /\ \A r \in message_events : ~CarriesMarker(r.raw_event)

(***************************************************************************)
(* Properties of the day window and the range counts, under SpecWindow.    *)
(***************************************************************************)
\* The instant at which the zone's wall clock shows the given time of the
\* calendar date `date`.
ZonedInstant(date, msOfDay, tz) ==
  PlusMs(Instant(DaysFromCivil(date.year, date.month, date.day), msOfDay),
         0 - TzOffsetMinutes(tz) * MsPerMinute)

\* C8: the window of a target date starts at 00:00:00.000 and ends at
\* 23:59:59.999 of its calendar date on the wall clock of the timezone.
C8_WindowIsZoneDay ==
  win.op = "getDayRange" =>
    LET date == FormatDate(win.targetDate, win.tz)
    IN  /\ win.result.start = ZonedInstant(date, 0, win.tz)
        /\ win.result.end = ZonedInstant(date, MsPerDay - 1, win.tz)

Millis(t) == (t.day - (Jan15 - 2)) * MsPerDay + t.ms
RowsOfKind(kind) ==
  CASE kind = "reactionCount" -> reaction_events
    [] kind = "newMemberCount" ->
         {r \in member_events : r.event_type = "member_joined_channel"}
    [] kind = "memberRemovedCount" ->
         {r \in member_events : r.event_type = "member_left_channel"}
    [] kind = "messageCount" -> message_events
    [] kind = "fileUploadCount" -> file_events
TimestampOf(kind, r) == IF kind = "messageCount" THEN r.message_ts ELSE r.event_ts

\* C10: a range count is the number of rows of its kind with the channel
\* asked for and start <= timestamp <= end, rows at either end included; it
\* is 0 when there is none.
C10_RangeCountExact ==
  win.op = "count" =>
    LET hits == {r \in RowsOfKind(win.kind) :
                   /\ r.channel_id = win.channelId
                   /\ Millis(win.start) <= Millis(TimestampOf(win.kind, r))
                   /\ Millis(TimestampOf(win.kind, r)) <= Millis(win.end)}
    IN  /\ win.result = Cardinality(hits)
        /\ (hits = {} <=> win.result = 0)

\* Reactions of C1 counted over the UTC day: one row sits exactly on the end,
\* one lies before the start and one belongs to another channel.
C10_Witness ==
  /\ win.op = "count" /\ win.kind = "reactionCount" /\ win.channelId = "C1"
  /\ win.start = UtcMidnight /\ win.end = UtcDayEnd
  /\ reaction_events = ReactionPool
  /\ win.result = 3

(***************************************************************************)
(* Properties of the summary upsert, under SpecPersist.                    *)
(***************************************************************************)
RowCounts(r) ==
  <<r.reaction_count, r.new_member_count, r.member_removed_count,
    r.message_count, r.file_upload_count>>
SummaryCounts(summary) ==
  <<summary.reactionCount, summary.newMemberCount, summary.memberRemovedCount,
    summary.messageCount, summary.fileUploadCount>>
RowsOfKey(rows, r) == {o \in rows : o.channel_id = r.channel_id /\ o.stat_date = r.stat_date}
RunTwice(r) ==
  \E f \in fresh : f.key = <<r.channel_id, r.stat_date>> /\ f.times = "twice"

\* C4: when collect-then-persist has just run for a (channel, date) for the
\* second time in a row with no event written in between, the key has
\* exactly one row and its five counts are those the first run left.
C4_UpsertIdempotent ==
  (win.op = "persistSummary" /\ RunTwice(win.result)) =>
    /\ Cardinality(RowsOfKey(daily_summaries, win.result)) = 1
    /\ win.before # {}
    /\ \A o \in win.before : RowCounts(o) = RowCounts(win.result)
    /\ win.result \in daily_summaries

\* The second run found counts that are not all zero.
C4_Witness ==
  /\ win.op = "persistSummary" /\ RunTwice(win.result)
  /\ win.result.reaction_count > 0
  /\ win.before = {win.result}

\* C5: across any step, the reference of a stored row stays as it is unless
\* the step persists a non-null reference for its key, which then replaces
\* it; so a non-null reference never becomes null.
C5_ReferencePreserved ==
  [][\A o \in daily_summaries :
       \E n \in daily_summaries' :
         /\ n.channel_id = o.channel_id /\ n.stat_date = o.stat_date
         /\ \/ n.message_ts = o.message_ts
            \/ /\ win'.op = "persistSummary"
               /\ win'.messageTs # Absent
               /\ n.message_ts = win'.messageTs
               /\ n = win'.result]_vars

\* A null reference was persisted over a stored non-null one, which stayed.
C5_Witness ==
  /\ win.op = "persistSummary"
  /\ win.messageTs = Absent
  /\ \E o \in win.before : o.message_ts # Absent /\ win.result.message_ts = o.message_ts
  /\ \E o \in win.before : RowCounts(o) # RowCounts(win.result)

\* C6: after persistSummary the key has one row, whose five counts are those
\* of the summary passed in; when the key had no row, the row has the given
\* counts and reference; the value returned is the row as stored.
C6_FullReplace ==
  win.op = "persistSummary" =>
    /\ RowsOfKey(daily_summaries, win.result) = {win.result}
    /\ win.result.channel_id = win.summary.channelId
    /\ win.result.stat_date = win.summary.statDate
    /\ RowCounts(win.result) = SummaryCounts(win.summary)
    /\ win.before = {} => win.result.message_ts = win.messageTs

\* A row with other counts was replaced, not added to.
C6_Witness ==
  /\ win.op = "persistSummary"
  /\ \E o \in win.before :
       /\ o.reaction_count > 0
       /\ RowCounts(o) # RowCounts(win.result)
       /\ RowCounts(win.result) = SummaryCounts(win.summary)
  /\ Cardinality(daily_summaries) > 1

(***************************************************************************)
(* SpecJob: runDailySummaryJob started by the cron timer and by the        *)
(* run-summary endpoint, its awaits interleaving with each other, with     *)
(* event writes and with the clock.                                        *)
(***************************************************************************)
\* The date strings of a request body; the timer passes none.
DateStrings == {Absent, "2024-01-14", "not-a-date"}
\* The year, month and day new Date(input) reads from a YYYY-MM-DD string;
\* none from text that is not a date.
DateFields(input) ==
  CASE input = "2024-01-14" -> <<2024, 1, 14>>
    [] input = "2024-01-15" -> <<2024, 1, 15>>
    [] OTHER -> <<>>

\* What parseDateInput returns for no input or an invalid date.
NullDate == Instant(0 - 1, 0)

\* new Date('YYYY-MM-DD') is midnight UTC of that date.
parseDateInput(input) ==
  IF Falsy(input) THEN NullDate
  ELSE LET f == DateFields(input)
       IN  IF f = <<>> THEN NullDate
           ELSE Instant(DaysFromCivil(f[1], f[2], f[3]), 0)

\* new Date(); setDate(getDate() - 1) unless useToday; setHours(0, 0, 0, 0):
\* midnight on the wall clock of the process.
getDefaultDate(useToday) ==
  LET local == WallClock(Now, processTz)
      day == IF useToday THEN local.day ELSE local.day - 1
  IN  PlusMs(Instant(day, 0), 0 - TzOffsetMinutes(processTz) * MsPerMinute)

\* Plausible fault: the flag looked at before the date.
TargetDateFlagFirst(date, defaultToToday) ==
  IF defaultToToday \/ parseDateInput(date) = NullDate
  THEN getDefaultDate(defaultToToday)
  ELSE parseDateInput(date)

\* parseDateInput(date) || getDefaultDate(defaultToToday)
TargetDate(date, defaultToToday) ==
  IF parseDateInput(date) = NullDate THEN getDefaultDate(defaultToToday)
  ELSE parseDateInput(date)

\* The cron callback calls runDailySummaryJob(); the endpoint calls
\* runDailySummaryJob({ date, defaultToToday: false }).
Invocations(r) ==
  IF r = "timer" THEN {[date |-> Absent, defaultToToday |-> FALSE]}
  ELSE {[date |-> d, defaultToToday |-> FALSE] : d \in DateStrings}

Kinds == {CountKinds[i] : i \in DOMAIN CountKinds}

RunsStarted == runs["timer"].started + runs["manual"].started

\* Plausible fault: the catch logs the error and throws it again.
JobCatchRethrows(error) == "threw"

\* catch (error) { console.error(...) }: the job returns normally.
JobCatch(error) == "done"

\* POST /api/slack/run-summary after its await: res.json({ success: true })
\* when runDailySummaryJob returned, status 500 and success false when it
\* threw.
RunSummaryResponse(pc) ==
  IF pc = "threw" THEN [status |-> 500, success |-> FALSE]
  ELSE [status |-> 200, success |-> TRUE]

\* A run that has ended keeps how it ended and nothing else; the endpoint
\* answers its caller.
EndedRun(r, outcome, started) ==
  LET pc == IF outcome = "ok" THEN "done" ELSE JobCatch(outcome)
  IN  [IdleRun EXCEPT !.pc = pc, !.outcome = outcome, !.started = started,
                      !.response = IF r = "manual" THEN RunSummaryResponse(pc)
                                   ELSE NoResponse]
EndRun(r, outcome) ==
  runs' = [runs EXCEPT ![r] =
             [EndedRun(r, outcome, runs[r].started) EXCEPT !.posts = runs[r].posts]]

\* runDailySummaryJob up to the first await: the target date, then
\* collectStatsForDate up to its Promise.all.  scheduleDailySummary sets no
\* timer when no channel is configured.
StartRun(r, date, defaultToToday) ==
  /\ runs[r].pc \in {"idle", "done"}
  /\ r = "timer" => ~Falsy(config.slackChannelId)
  /\ RunsStarted < MaxRuns
  /\ LET targetDate == TargetDate(date, defaultToToday)
         timezone == OrElse(config.timezone, "UTC")
         begun == [IdleRun EXCEPT !.started = runs[r].started + 1]
     IN  runs' = [runs EXCEPT ![r] =
           IF MissingChannel(config)
           THEN EndedRun(r, "collect_failed", begun.started)
           ELSE [begun EXCEPT
                   !.pc = "collecting",
                   !.summary = [NoSummary EXCEPT
                                  !.channelId = config.slackChannelId,
                                  !.statDate = FormatDate(targetDate, timezone)],
                   !.range = getDayRange(targetDate, timezone),
                   !.pending = Kinds]]
  /\ UNCHANGED <<tables, daily_summaries, posted, fresh, callVars, envVars, win>>

\* Plausible fault: each count that comes in is written to the summary row.
CountResolvesWritesThrough(r, kind) ==
  /\ runs[r].pc = "collecting"
  /\ kind \in runs[r].pending
  /\ LET run == runs[r]
         n == CountOf(kind, run.summary.channelId, run.range.start, run.range.end)
         summary == [run.summary EXCEPT ![kind] = n]
         pending == run.pending \ {kind}
     IN  /\ runs' = [runs EXCEPT ![r] =
               [run EXCEPT
                  !.summary = summary,
                  !.pending = pending,
                  !.pc = IF pending # {} THEN "collecting"
                         ELSE IF Falsy(config.slackBotToken) THEN "persisting"
                         ELSE "posting",
                  !.posts = IF pending = {} /\ ~Falsy(config.slackBotToken)
                            THEN run.posts + 1 ELSE run.posts]]
         /\ daily_summaries' = persistSummary(daily_summaries, summary, Absent)
  /\ UNCHANGED <<tables, posted, fresh, callVars, envVars, win>>

\* One of the five count queries returns.  With the last one Promise.all
\* resolves and postSummary runs up to its await: without a token it
\* returns null and persistSummary is called at once.
CountResolves(r, kind) ==
  /\ runs[r].pc = "collecting"
  /\ kind \in runs[r].pending
  /\ LET run == runs[r]
         n == CountOf(kind, run.summary.channelId, run.range.start, run.range.end)
         summary == [run.summary EXCEPT ![kind] = n]
         pending == run.pending \ {kind}
     IN  runs' = [runs EXCEPT ![r] =
           [run EXCEPT
              !.summary = summary,
              !.pending = pending,
              !.pc = IF pending # {} THEN "collecting"
                     ELSE IF Falsy(config.slackBotToken) THEN "persisting"
                     ELSE "posting",
              !.posts = IF pending = {} /\ ~Falsy(config.slackBotToken)
                        THEN run.posts + 1 ELSE run.posts]]
  /\ UNCHANGED <<tables, daily_summaries, posted, fresh, callVars, envVars, win>>

\* One of the count queries fails: Promise.all rejects and the catch of
\* runDailySummaryJob logs the error.
CountRejects(r, kind) ==
  /\ runs[r].pc = "collecting"
  /\ kind \in runs[r].pending
  /\ EndRun(r, "collect_failed")
  /\ UNCHANGED <<tables, daily_summaries, posted, fresh, callVars, envVars, win>>

\* chat.postMessage returns: response.ts is the reference, and
\* persistSummary is called with it.
PostResolves(r) ==
  /\ runs[r].pc = "posting"
  /\ Len(posted) < Len(PostRefs)
  /\ posted' = Append(posted, PostRefs[Len(posted) + 1])
  /\ runs' = [runs EXCEPT ![r].pc = "persisting",
                          ![r].messageTs = PostRefs[Len(posted) + 1]]
  /\ UNCHANGED <<tables, daily_summaries, fresh, callVars, envVars, win>>

\* Plausible fault: a failed post is caught on its own and the summary is
\* persisted without a reference.
PostRejectsStillPersists(r) ==
  /\ runs[r].pc = "posting"
  /\ daily_summaries' = persistSummary(daily_summaries, runs[r].summary, Absent)
  /\ EndRun(r, "post_failed")
  /\ UNCHANGED <<tables, posted, fresh, callVars, envVars, win>>

\* Plausible fault: a failed post is made again.
PostRejectsRetries(r) ==
  /\ runs[r].pc = "posting"
  /\ runs' = [runs EXCEPT ![r].posts = @ + 1]
  /\ UNCHANGED <<tables, daily_summaries, posted, fresh, callVars, envVars, win>>

\* chat.postMessage rejects: the catch of runDailySummaryJob logs the error
\* and persistSummary is never called.
PostRejects(r) ==
  /\ runs[r].pc = "posting"
  /\ EndRun(r, "post_failed")
  /\ UNCHANGED <<tables, daily_summaries, posted, fresh, callVars, envVars, win>>

\* The upsert of persistSummary executes and returns.
PersistResolves(r) ==
  /\ runs[r].pc = "persisting"
  /\ daily_summaries' =
       persistSummary(daily_summaries, runs[r].summary, runs[r].messageTs)
  /\ EndRun(r, "ok")
  /\ UNCHANGED <<tables, posted, fresh, callVars, envVars, win>>

PersistRejects(r) ==
  /\ runs[r].pc = "persisting"
  /\ EndRun(r, "persist_failed")
  /\ UNCHANGED <<tables, daily_summaries, posted, fresh, callVars, envVars, win>>

JobPool ==
  {ReactionRow("Ev1", "C1", At(Jan15 - 1, 10, 0, 0)),
   MessageRow("Ev1", "C1", At(Jan15 - 1, 10, 0, 0))}
\* config.js: a variable that is not set reads as the empty string.
JobConfigs ==
  {DefaultConfig,
   Config("C1", "Asia/Kolkata", ""),
   Config("", "Asia/Kolkata", "xoxb-token")}

InitJob ==
  /\ reaction_events = {}
  /\ member_events = {}
  /\ message_events = {}
  /\ file_events = {}
  /\ daily_summaries = {}
  /\ calls = [c \in CallIds |-> IdleCall]
  /\ finished = {}
  /\ http = [c \in CallIds |-> NoRequest]
  /\ config \in JobConfigs
  /\ now = 0
  /\ processTz = "UTC"
  /\ runs = [r \in Triggers |-> IdleRun]
  /\ posted = <<>>
  /\ fresh = {}
  /\ win = NoWindow

NextJob ==
  \/ \E r \in Triggers : \E i \in Invocations(r) :
       StartRun(r, i.date, i.defaultToToday)
  \/ \E r \in Triggers, kind \in Kinds : CountResolves(r, kind)
  \/ \E r \in Triggers, kind \in Kinds : CountRejects(r, kind)
  \/ \E r \in Triggers : PostResolves(r)
  \/ \E r \in Triggers : PostRejects(r)
  \/ \E r \in Triggers : PersistResolves(r)
  \/ \E r \in Triggers : PersistRejects(r)
  \/ \E row \in JobPool : StoreEvent(row)
  \/ Tick

SpecJob == InitJob /\ [][NextJob]_vars

(***************************************************************************)
(* SpecSystem: deliveries and runs together.  processSlackEvent calls and  *)
(* the runs of both triggers interleave in every way; the clock stands.    *)
(***************************************************************************)
\* A reaction of the day summarised, and a second delivery under the same
\* id with another body.
SystemEnvelopes ==
  {[event_id |-> "Ev1", has_event |-> TRUE,
    event |-> [ReactionBody EXCEPT !.event_ts = TsB]],
   [event_id |-> "Ev1", has_event |-> TRUE,
    event |-> [ReactionBody EXCEPT !.user = "U2"]]}

NextSystem ==
  \/ \E c \in CallIds, payload \in SystemEnvelopes : Deliver(c, payload)
  \/ \E c \in CallIds : QueryExecutes(c)
  \/ \E c \in CallIds : QueryFails(c)
  \/ \E c \in CallIds : Resume(c)
  \/ \E r \in Triggers : StartRun(r, Absent, FALSE)
  \/ \E r \in Triggers, kind \in Kinds : CountResolves(r, kind)
  \/ \E r \in Triggers, kind \in Kinds : CountRejects(r, kind)
  \/ \E r \in Triggers : PostResolves(r)
  \/ \E r \in Triggers : PostRejects(r)
  \/ \E r \in Triggers : PersistResolves(r)
  \/ \E r \in Triggers : PersistRejects(r)

SpecSystem == Init /\ [][NextSystem]_vars

(***************************************************************************)
(* SpecChannels: the runs for the configured channel while events of that  *)
(* channel and of another one are stored.                                  *)
(***************************************************************************)
\* Rows of the day summarised: one of C1, and a row of each table of C2.
ChannelPool ==
  {ReactionRow("Ev1", "C1", At(Jan15 - 1, 10, 0, 0)),
   ReactionRow("Ev2", "C2", At(Jan15 - 1, 10, 0, 0)),
   MemberRow("Ev1", "C2", "member_joined_channel", At(Jan15 - 1, 10, 0, 0)),
   MessageRow("Ev1", "C2", At(Jan15 - 1, 10, 0, 0)),
   FileRow("Ev1", "C2", At(Jan15 - 1, 10, 0, 0))}

NextChannels ==
  \/ \E row \in ChannelPool : StoreEvent(row)
  \/ \E r \in Triggers : StartRun(r, Absent, FALSE)
  \/ \E r \in Triggers, kind \in Kinds : CountResolves(r, kind)
  \/ \E r \in Triggers, kind \in Kinds : CountRejects(r, kind)
  \/ \E r \in Triggers : PostResolves(r)
  \/ \E r \in Triggers : PostRejects(r)
  \/ \E r \in Triggers : PersistResolves(r)
  \/ \E r \in Triggers : PersistRejects(r)

SpecChannels == Init /\ [][NextChannels]_vars

(***************************************************************************)
(* SpecRuns: the runs of SpecJob, interleaved in every way, over a store   *)
(* and a clock that stay as they start.                                    *)
(***************************************************************************)
InitRuns ==
  /\ reaction_events \in SUBSET {r \in JobPool : "reaction" \in DOMAIN r}
  /\ member_events = {}
  /\ message_events = {}
  /\ file_events = {}
  /\ daily_summaries = {}
  /\ calls = [c \in CallIds |-> IdleCall]
  /\ finished = {}
  /\ http = [c \in CallIds |-> NoRequest]
  /\ config \in JobConfigs
  /\ now = 0
  /\ processTz = "UTC"
  /\ runs = [r \in Triggers |-> IdleRun]
  /\ posted = <<>>
  /\ fresh = {}
  /\ win = NoWindow

NextRuns ==
  \/ \E r \in Triggers : \E i \in Invocations(r) :
       StartRun(r, i.date, i.defaultToToday)
  \/ \E r \in Triggers, kind \in Kinds : CountResolves(r, kind)
  \/ \E r \in Triggers, kind \in Kinds : CountRejects(r, kind)
  \/ \E r \in Triggers : PostResolves(r)
  \/ \E r \in Triggers : PostRejects(r)
  \/ \E r \in Triggers : PersistResolves(r)
  \/ \E r \in Triggers : PersistRejects(r)

SpecRuns == InitRuns /\ [][NextRuns]_vars

(***************************************************************************)
(* Properties of concurrent job runs, under SpecJob.                       *)
(***************************************************************************)
\* The step in which the upsert of run r executes.
PersistStep(r) ==
  runs[r].pc = "persisting" /\ runs'[r].pc = "done" /\ runs'[r].outcome = "ok"

\* The reference a key has: null when it has no row.
StoredRef(rows) ==
  IF \E o \in rows : o.message_ts # Absent
  THEN (CHOOSE o \in rows : o.message_ts # Absent).message_ts
  ELSE Absent

\* C7: with the timer's and the endpoint's runs interleaved in every way, no
\* (channel, date) ever has two rows; only the persist of a run changes the
\* table, and it leaves the key of its summary with that summary's counts
\* and with its own reference if that is non-null, else with the reference
\* stored before; so after the runs the counts are the last persist's and
\* the reference is the last non-null one persisted.
C7_ConvergentRuns ==
  [][/\ \A a, b \in daily_summaries' : SummaryKey(a) = SummaryKey(b) => a = b
     /\ (\A r \in Triggers : ~PersistStep(r)) => daily_summaries' = daily_summaries
     /\ \A r \in Triggers : PersistStep(r) =>
          LET s == runs[r].summary
              old == SummariesAt(daily_summaries, s.channelId, s.statDate)
              new == SummariesAt(daily_summaries', s.channelId, s.statDate)
          IN  /\ new # {}
              /\ \A n \in new :
                   /\ RowCounts(n) = SummaryCounts(s)
                   /\ n.message_ts = IF runs[r].messageTs # Absent
                                     THEN runs[r].messageTs ELSE StoredRef(old)
              /\ daily_summaries' \ new = daily_summaries \ old]_vars

\* Both triggers ran for one key and overlapped: the run that posted first
\* persisted last, so the row has the first reference and that run's counts,
\* taken before the reaction of that day was stored.
C7_Witness ==
  /\ \A r \in Triggers : runs[r].pc = "done" /\ runs[r].outcome = "ok"
  /\ Len(posted) = 2
  /\ Cardinality(daily_summaries) = 1
  /\ \E row \in daily_summaries :
       /\ row.stat_date = Date(2024, 1, 14)
       /\ row.message_ts = posted[1]
       /\ row.reaction_count = 0
       /\ reaction_events # {}

(***************************************************************************)
(* Further properties of ingestion, under Spec.                            *)
(***************************************************************************)
MemberKinds == {"member_joined_channel", "member_left_channel"}
Channels == {"C1", "C2"}
Within(t, start, end) == Millis(start) <= Millis(t) /\ Millis(t) <= Millis(end)

\* C11: a membership delivery that issues a save issues it with the action
\* equal to the kind it was dispatched under, so every membership row has
\* the kind of its event; over any channel and interval
\* countNewMembersBetween is the number of joined rows,
\* countMembersRemovedBetween the number of left rows, and the two add up
\* to the number of membership rows of the channel in the interval.
C11_MembershipCounters ==
  [][/\ \A c \in CallIds, p \in Payloads :
          (p.has_event /\ p.event.type \in MemberKinds
             /\ calls[c].pc = "idle" /\ calls'[c].pc = "query" /\ Deliver(c, p))
            => /\ calls'[c].req.table = "member_events"
               /\ calls'[c].req.row.event_type = p.event.type
     /\ \A r \in member_events' :
          r.event_type = r.raw_event.type /\ r.event_type \in MemberKinds
     /\ \A ch \in Channels, rg \in Ranges :
          LET rows == {r \in member_events' :
                         r.channel_id = ch /\ Within(r.event_ts, rg[1], rg[2])}
              joined == countNewMembersBetween(member_events', ch, rg[1], rg[2])
              left == countMembersRemovedBetween(member_events', ch, rg[1], rg[2])
          IN  /\ joined = Cardinality({r \in rows : r.event_type = "member_joined_channel"})
              /\ left = Cardinality({r \in rows : r.event_type = "member_left_channel"})
              /\ joined + left = Cardinality(rows)]_vars

\* A joined row and a left row of C1 are stored, both within 2024-01-15 UTC.
C11_Witness ==
  /\ \E r \in member_events : r.event_type = "member_joined_channel" /\ r.channel_id = "C1"
  /\ \E r \in member_events : r.event_type = "member_left_channel" /\ r.channel_id = "C1"
  /\ countNewMembersBetween(member_events, "C1", UtcMidnight, UtcDayEnd) = 1
  /\ countMembersRemovedBetween(member_events, "C1", UtcMidnight, UtcDayEnd) = 1

(***************************************************************************)
(* SpecDates: the target date of a run and collectStatsForDate, applied    *)
(* while the clock advances and the process is restarted in other time     *)
(* zones; the stores and the configuration stay as they start.             *)
(***************************************************************************)
InitDates ==
  /\ reaction_events \in SUBSET ScenarioReactions
  /\ member_events = {}
  /\ message_events \in {{}, MessagePool}
  /\ file_events = {}
  /\ daily_summaries = {}
  /\ calls = [c \in CallIds |-> IdleCall]
  /\ finished = {}
  /\ http = [c \in CallIds |-> NoRequest]
  /\ config \in {Config("C1", tz, "xoxb-token") : tz \in TimeZones}
  /\ now = 0
  /\ processTz \in TimeZones
  /\ runs = [r \in Triggers |-> IdleRun]
  /\ posted = <<>>
  /\ fresh = {}
  /\ win = NoWindow

\* The server process is started again with another TZ.
Relocate(tz) ==
  /\ tz # processTz
  /\ processTz' = tz
  /\ UNCHANGED <<tables, callVars, jobVars, config, now, win>>

\* collectStatsForDate(targetDate); the record keeps whether the call before
\* it was the same call made in another time zone of the process.
Collect(targetDate) ==
  /\ win' = [op |-> "collectStatsForDate", targetDate |-> targetDate,
             processTz |-> processTz,
             repeated |-> /\ win.op = "collectStatsForDate"
                          /\ win.targetDate = targetDate
                          /\ win.processTz # processTz,
             result |-> collectStatsForDate(targetDate)]
  /\ UNCHANGED <<tables, callVars, jobVars, envVars>>

\* runDailySummaryJob({ date, defaultToToday }) up to the summary collected.
ResolveAndCollect(date, defaultToToday) ==
  /\ win' = [op |-> "runDailySummaryJob", date |-> date,
             defaultToToday |-> defaultToToday, at |-> Now,
             processTz |-> processTz,
             targetDate |-> TargetDate(date, defaultToToday),
             result |-> collectStatsForDate(TargetDate(date, defaultToToday))]
  /\ UNCHANGED <<tables, callVars, jobVars, envVars>>

NextDates ==
  \/ \E tz \in TimeZones : Relocate(tz)
  \/ Tick
  \/ \E targetDate \in TargetDates : Collect(targetDate)
  \/ \E date \in DateStrings, defaultToToday \in BOOLEAN :
       ResolveAndCollect(date, defaultToToday)

SpecDates == InitDates /\ [][NextDates]_vars

(***************************************************************************)
(* Properties of date resolution and of the aggregator, under SpecDates.   *)
(***************************************************************************)
\* The calendar date of instant t on the wall clock of zone tz.
CalendarDate(t, tz) ==
  CivilFromDays((Millis(t) + TzOffsetMinutes(tz) * MsPerMinute) \div MsPerDay
                  + (Jan15 - 2))

\* C12: collectStatsForDate applied again to the same target date, with the
\* same stores and configuration, returns the same summary whatever time
\* zone the process has been restarted in meanwhile, and its date string is
\* the calendar date of the target date in the configured time zone.
C12_ZoneDeterminism ==
  [][\A d \in TargetDates :
       Collect(d) =>
         /\ win'.result.statDate = CalendarDate(d, config.timezone)
         /\ (win.op = "collectStatsForDate" /\ win.targetDate = d)
              => win'.result = win.result]_vars

\* The same collect was made in two time zones of the process, for a
\* configured zone other than UTC and a store with reactions in the window.
C12_Witness ==
  /\ win.op = "collectStatsForDate"
  /\ win.repeated
  /\ win.processTz # config.timezone
  /\ config.timezone # "UTC"
  /\ win.result.reactionCount = 2

\* The number of the calendar day of instant t on the wall clock of zone tz.
ZoneDay(t, tz) ==
  (Millis(t) + TzOffsetMinutes(tz) * MsPerMinute) \div MsPerDay + (Jan15 - 2)

\* C13: a run with no date and defaultToToday false produces a summary whose
\* statDate is the calendar day before the current calendar day in the
\* configured time zone, whatever the time zone of the process and the
\* time of day.
C13_ScheduledRunTargetsYesterday ==
  (win.op = "runDailySummaryJob" /\ win.date = Absent /\ ~win.defaultToToday) =>
    win.result.statDate = CivilFromDays(ZoneDay(win.at, config.timezone) - 1)

\* The date strings that parse, with the calendar date they name.
NamedDate(date) ==
  CASE date = "2024-01-14" -> Date(2024, 1, 14)
    [] date = "2024-01-15" -> Date(2024, 1, 15)
    [] OTHER -> Date(0, 0, 0)
Parses(date) == NamedDate(date) # Date(0, 0, 0)
IsMidnightIn(t, tz) == (Millis(t) + TzOffsetMinutes(tz) * MsPerMinute) % MsPerDay = 0

\* C14: the target date of a run is the date named by its date string when
\* that parses, whatever defaultToToday is; otherwise it is midnight of the
\* current day of the process when defaultToToday is true and midnight of
\* the day before when it is false.
C14_DateResolution ==
  win.op = "runDailySummaryJob" =>
    IF Parses(win.date)
    THEN /\ CalendarDate(win.targetDate, "UTC") = NamedDate(win.date)
         /\ IsMidnightIn(win.targetDate, "UTC")
    ELSE /\ ZoneDay(win.targetDate, win.processTz)
              = ZoneDay(win.at, win.processTz) - (IF win.defaultToToday THEN 0 ELSE 1)
         /\ IsMidnightIn(win.targetDate, win.processTz)

\* A run with a valid date and defaultToToday true took the date, which is
\* neither today nor yesterday of the process.
C14_Witness ==
  /\ win.op = "runDailySummaryJob"
  /\ win.date = "2024-01-14" /\ win.defaultToToday
  /\ win.result.statDate = Date(2024, 1, 14)
  /\ ZoneDay(win.at, win.processTz) = Jan15 + 1

(***************************************************************************)
(* Further properties of job runs, under SpecRuns.                         *)
(***************************************************************************)
Failures == {"collect_failed", "post_failed", "persist_failed"}
\* The step in which run r fails.
FailStep(r) == runs[r].pc # "done" /\ runs'[r].outcome \in Failures

\* C15: no run ever ends by throwing; the step in which a run fails changes
\* nothing but the record of that run; and whatever ended before, a run
\* that starts with a channel configured goes on to collect, each await of
\* it that resolves takes it one stage further, and its persist stores its
\* summary.
C15_FailurePolicy ==
  [][/\ \A r \in Triggers : runs'[r].pc # "threw"
     /\ \A r \in Triggers :
          FailStep(r) =>
            /\ UNCHANGED <<tables, daily_summaries, posted, config>>
            /\ \A o \in Triggers \ {r} : runs'[o] = runs[o]
     /\ \A r \in Triggers :
          runs'[r] # runs[r] =>
            /\ \A i \in Invocations(r) :
                 (/\ runs[r].pc \in {"idle", "done"}
                  /\ ~Falsy(config.slackChannelId)
                  /\ StartRun(r, i.date, i.defaultToToday))
                   => runs'[r].pc = "collecting"
            /\ \A kind \in runs[r].pending :
                 CountResolves(r, kind) =>
                   runs'[r].pc \in {"collecting", "posting", "persisting"}
            /\ (runs[r].pc = "posting" /\ PostResolves(r))
                 => runs'[r].pc = "persisting"
            /\ (runs[r].pc = "persisting" /\ PersistResolves(r)) => PersistStep(r)
     /\ \A r \in Triggers :
          PersistStep(r) =>
            \E row \in daily_summaries' :
              /\ row.channel_id = runs[r].summary.channelId
              /\ row.stat_date = runs[r].summary.statDate
              /\ RowCounts(row) = SummaryCounts(runs[r].summary)]_vars

\* The timer ran twice with a token configured and only one message was
\* posted: its first run failed in collect or post, its second run persisted.
C15_Witness ==
  /\ ~Falsy(config.slackBotToken)
  /\ runs["timer"].started = 2 /\ runs["manual"].started = 0
  /\ runs["timer"].pc = "done" /\ runs["timer"].outcome = "ok"
  /\ Len(posted) = 1
  /\ \E row \in daily_summaries : row.message_ts = posted[1]

\* C16: the response of POST /api/slack/run-summary reports success exactly
\* when collect, post and persist all completed in its run, and failure
\* when one of them failed.
C16_ResponseReportsOutcome ==
  runs["manual"].pc = "done" =>
    (runs["manual"].response.success <=> runs["manual"].outcome = "ok")

InFlightRun(r) == runs[r].pc \in {"collecting", "posting", "persisting"}

\* C17: with no channel configured, a run that starts ends in that step with
\* the configuration error caught: no count query is issued, nothing is
\* posted, no summary row is written, and the run has returned, not thrown;
\* so no run is ever in flight, no message posted and no row stored.
C17_ConfigurationError ==
  [][Falsy(config.slackChannelId) =>
       /\ \A r \in Triggers :
            runs'[r] # runs[r] =>
              /\ runs'[r].pending = {}
              /\ runs'[r].pc = "done"
              /\ runs'[r].outcome = "collect_failed"
              /\ UNCHANGED <<daily_summaries, posted, tables>>
       /\ \A r \in Triggers : ~InFlightRun(r) /\ runs[r].pc # "threw"
       /\ posted = <<>> /\ daily_summaries = {}]_vars

\* Two runs of the endpoint have hit the configuration error.
C17_Witness ==
  /\ Falsy(config.slackChannelId)
  /\ runs["manual"].started = 2
  /\ runs["manual"].outcome = "collect_failed"
  /\ posted = <<>> /\ daily_summaries = {}

(***************************************************************************)
(* Properties of failure isolation and routing, under Spec.                *)
(***************************************************************************)
\* The step in which the save of call c fails, and the one in which it runs.
SaveFails(c) == calls[c].pc = "query" /\ calls'[c].pc = "rejected"
SaveRuns(c) == calls[c].pc = "query" /\ calls'[c].pc = "resolved"
OthersUnchanged(c) == \A d \in CallIds \ {c} : calls'[d] = calls[d]

\* C18: no call ever ends by throwing; the step in which a save fails, and
\* the return of that call, add no row and touch no other call; and
\* whatever has failed before or is failing meanwhile, a delivery issues the
\* save of its own event and a save that runs stores its row unless the id
\* is already there, changing nothing else.
C18_FailureIsolation ==
  [][/\ \A c \in CallIds : calls'[c].pc # "threw"
     /\ \A c \in CallIds :
          (SaveFails(c) \/ (calls[c].pc = "rejected" /\ calls'[c] # calls[c]))
            => /\ UNCHANGED tables
               /\ OthersUnchanged(c)
               /\ calls'[c].pc \in {"rejected", "returned"}
     /\ \A c \in CallIds :
          SaveRuns(c) =>
            LET name == calls[c].req.table
                row == calls[c].req.row
            IN  /\ \E r \in Table(name)' : r.event_id = row.event_id
                /\ Table(name)' \in {Table(name), Table(name) \cup {row}}
                /\ row.event_id \notin {r.event_id : r \in Table(name)}
                     => row \in Table(name)'
                /\ \A other \in EventTables \ {name} : Table(other)' = Table(other)
                /\ OthersUnchanged(c)
     /\ \A c \in CallIds, p \in Payloads :
          (calls'[c] # calls[c] /\ calls[c].pc = "idle" /\ Deliver(c, p))
            => LET req == Dispatch(p, Now)
               IN  IF req.op = "save"
                   THEN calls'[c] = [pc |-> "query", req |-> req]
                   ELSE calls'[c].pc = "returned"]_vars

\* The save of one event failed in the store and left no row, and the save
\* of another event has stored its row.
C18_Witness ==
  \E e \in finished, c \in CallIds :
    /\ e.why = "save_failed"
    /\ ~HasEventId(Table(e.table), e.event_id)
    /\ calls[c].pc = "resolved"
    /\ calls[c].req.row.event_id # e.event_id
    /\ calls[c].req.row \in Table(calls[c].req.table)

\* The table of each event kind; "none" for any other kind.
KindTable(type) ==
  CASE type = "reaction_added" -> "reaction_events"
    [] type \in MemberKinds -> "member_events"
    [] type = "message" -> "message_events"
    [] type = "file_shared" -> "file_events"
    [] OTHER -> "none"
Changed == {name \in EventTables : Table(name)' # Table(name)}

\* C19: a step changes at most one table, by one row, and only as the save
\* of a call running into the table that call asked for; a call asks at most
\* once, at delivery, and for the table of the kind of its envelope (which a
\* well-formed envelope of the five kinds does ask for); an envelope of any
\* other kind makes the call return at once with no save and no throw.
C19_DispatcherRouting ==
  [][/\ Cardinality(Changed) <= 1
     /\ \A name \in Changed :
          /\ \E c \in CallIds : SaveRuns(c) /\ calls[c].req.table = name
          /\ \E row \in Table(name)' : Table(name)' = Table(name) \cup {row}
     /\ \A c \in CallIds :
          calls'[c].pc = "query" => calls[c].pc \in {"idle", "query"}
     /\ \A c \in CallIds, p \in Payloads :
          (calls'[c] # calls[c] /\ calls[c].pc = "idle"
             /\ p.has_event /\ p.event_id \notin {Absent, ""} /\ Deliver(c, p))
            => /\ calls'[c].pc = "query"
                    => calls'[c].req.table = KindTable(p.event.type)
               /\ p.event \in WellFormed => calls'[c].pc = "query"
               /\ KindTable(p.event.type) = "none"
                    => (calls'[c].pc = "returned" /\ UNCHANGED tables)]_vars

\* An envelope of another kind was delivered and ignored, and the only row
\* stored is the file row of the other delivery.
C19_Witness ==
  /\ \E e \in finished : e.why = "unhandled"
  /\ file_events # {}
  /\ reaction_events = {} /\ member_events = {} /\ message_events = {}
  /\ \A c \in CallIds : calls[c].pc = "returned"

\* C20: delivering an envelope with no event body or no event id makes the
\* call return at once, before any handler, with the tables as they were;
\* and no row of any event table ever has an empty event id.
C20_NoOpWithoutEventOrId ==
  [][/\ \A c \in CallIds, p \in Payloads :
          (calls'[c] # calls[c] /\ calls[c].pc = "idle"
             /\ (~p.has_event \/ p.event_id \in {Absent, ""}) /\ Deliver(c, p))
            => /\ calls'[c].pc = "returned"
               /\ UNCHANGED tables
               /\ finished' = finished \cup {Ended("none", Absent, "no_op")}
     /\ \A name \in EventTables : \A r \in Table(name)' :
          r.event_id \notin {Absent, ""}]_vars

\* Both deliveries were no-ops, or one was and the other stored its row
\* under its id.
C20_Witness ==
  /\ \E e \in finished : e.why = "no_op"
  /\ \E e \in finished : e.why = "saved" /\ e.event_id = "Ev2"
  /\ \E name \in EventTables : \E r \in Table(name) : r.event_id = "Ev2"
  /\ \A c \in CallIds : calls[c].pc = "returned"

\* The timestamp a raw body carries: event_ts, or else ts.
Carried(raw) == IF raw.event_ts.kind = "num" THEN raw.event_ts ELSE raw.ts
StoredStamp(name, r) == IF name = "message_events" THEN r.message_ts ELSE r.event_ts

\* C21: in every table, a row whose raw body carries a timestamp is stored
\* with that timestamp in milliseconds, a row whose raw body carries none is
\* stored with an instant of the clock, and no row is stored without one.
C21_CanonicalTimestamp ==
  \A name \in EventTables : \A r \in Table(name) :
    LET raw == r.raw_event
    IN  /\ StoredStamp(name, r) # NullDate
        /\ Carried(raw).kind = "num"
             => StoredStamp(name, r) = FromEpochSeconds(Carried(raw).sec, Carried(raw).micro)
        /\ Carried(raw).kind = "absent"
             => \E i \in DOMAIN Clock : StoredStamp(name, r) = Clock[i]

\* The envelope of the end-to-end scenario and the row it is to leave.
ScenarioEnvelope ==
  [event_id |-> "Ev1", has_event |-> TRUE,
   event |-> [ReactionBody EXCEPT !.event_ts = TsC]]
IsScenarioRow(r) ==
  /\ r.event_id = "Ev1" /\ r.channel_id = "C1" /\ r.user_id = "U1"
  /\ r.reaction = "thumbsup"
  /\ CivilFromDays(r.event_ts.day) = [year |-> 2023, month |-> 11, day |-> 14]
  /\ r.event_ts.ms = ((22 * 60 + 13) * 60 + 20) * MsPerSecond

\* C22: delivering the scenario envelope issues one save of the scenario
\* row into the reaction table, and when that save runs on an empty reaction
\* table the table holds that row and nothing else afterwards; every
\* reaction row has the channel of its target item, the user and the
\* reaction of its raw event.
C22_ReactionFieldMapping ==
  [][/\ \A c \in CallIds :
          (calls'[c] # calls[c] /\ calls[c].pc = "idle"
             /\ Deliver(c, ScenarioEnvelope))
            => /\ calls'[c].pc = "query"
               /\ calls'[c].req.table = "reaction_events"
               /\ IsScenarioRow(calls'[c].req.row)
     /\ \A c \in CallIds :
          (SaveRuns(c) /\ calls[c].req.table = "reaction_events"
             /\ calls[c].req.row.raw_event = ScenarioEnvelope.event
             /\ calls[c].req.row.event_id = "Ev1" /\ reaction_events = {})
            => /\ Cardinality(reaction_events') = 1
               /\ \A r \in reaction_events' : IsScenarioRow(r)
               /\ member_events' = member_events
               /\ message_events' = message_events
               /\ file_events' = file_events
     /\ \A r \in reaction_events' :
          /\ r.channel_id = r.raw_event.item_channel
          /\ r.user_id = r.raw_event.user
          /\ r.reaction = r.raw_event.reaction]_vars

\* The scenario envelope was delivered and saved, every call has returned,
\* and the store holds the one scenario row.
C22_Witness ==
  /\ Cardinality(reaction_events) = 1
  /\ \A r \in reaction_events :
       IsScenarioRow(r) /\ r.raw_event = ScenarioEnvelope.event
  /\ member_events = {} /\ message_events = {} /\ file_events = {}
  /\ \A c \in CallIds : calls[c].pc = "returned"
  /\ \E e \in finished : e.event_id = "Ev1" /\ e.why = "saved"

\* Request c is handled in this step; it is req, handled by either build.
Handled(c) == http[c].pc = "idle" /\ http'[c] # http[c]
Received(c, req) == ReceiveMiddleware(c, req) \/ ReceiveInline(c, req)
Refused(answer) ==
  answer.pc = "dropped" \/ (answer.pc = "responded" /\ answer.status # 200)

\* C23: no event callback is answered without being refused or handed to
\* processSlackEvent; while the call runs the request is unanswered, and
\* however the call ends (row saved, event skipped, duplicate absorbed,
\* kind unknown, save failed) the request is answered with status 200.
C23_AlwaysAcknowledged ==
  [][/\ \A c \in CallIds :
          (Handled(c) /\ ~Refused(http'[c]) /\ calls'[c].pc = "idle")
            => \A req \in Requests :
                 req.rawBody.type = "event_callback" => ~Received(c, req)
     /\ \A c \in CallIds :
          /\ calls'[c].pc \in {"query", "resolved", "rejected"}
               => http'[c] = Processing
          /\ calls'[c].pc \in {"returned", "threw"}
               => http'[c] = Answered(200)]_vars

\* One request ended with a failed save and another with a stored row, and
\* both were answered 200.
C23_Witness ==
  /\ \E e \in finished : e.why = "save_failed"
  /\ \E e \in finished : e.why = "saved"
  /\ file_events # {}
  /\ \A c \in CallIds : calls[c].pc = "returned" /\ http[c] = Answered(200)

\* The request's timestamp is not a number, or is more than 300 seconds
\* from the current time, or its signature is not Slack's signature of its
\* timestamp and raw body (a missing header is neither).
Unverified(req) ==
  \/ req.timestamp.kind # "num"
  \/ LET ms == (req.timestamp.sec - EpochSeconds(Now)) * 1000 - (Now.ms % 1000)
     IN  ms > 300 * 1000 \/ ms < 0 - 300 * 1000
  \/ req.signature # Hmac(SigningSecret, req.timestamp, req.rawBody)

\* C30: with a signing secret configured, the step that receives an
\* unverified event callback refuses it and starts no call of
\* processSlackEvent and changes no table; no call starts later for a
\* request already handled; a table changes only through the save of a
\* request that was let through.
C30_SignatureGate ==
  [][/\ \A c \in CallIds :
          (Handled(c) /\ ~Falsy(config.slackSigningSecret))
            => \/ /\ Refused(http'[c])
                  /\ calls' = calls /\ finished' = finished
                  /\ UNCHANGED tables
               \/ \A req \in Requests :
                    (req.rawBody.type = "event_callback" /\ Unverified(req))
                      => ~Received(c, req)
     /\ \A c \in CallIds :
          (calls[c].pc = "idle" /\ http[c].pc # "idle") => calls'[c].pc = "idle"
     /\ \A name \in EventTables :
          Table(name)' # Table(name)
            => \E c \in CallIds : http[c] = Processing /\ calls[c].req.table = name
                                    /\ calls[c].pc = "query"]_vars

\* With the secret configured, one request was refused and left its call
\* unstarted, while a verified one stored its row and was acknowledged.
C30_Witness ==
  /\ ~Falsy(config.slackSigningSecret)
  /\ \E c \in CallIds : http[c] = Answered(400) /\ calls[c].pc = "idle"
  /\ \E c \in CallIds : http[c] = Answered(200) /\ calls[c].pc = "returned"
  /\ Cardinality(reaction_events) + Cardinality(file_events) = 1

\* C24: a run enters the post only from the collection, with its last count
\* in, and a message is posted only by a run that is in the post; a run
\* enters the persist only from the post, with the reference just returned,
\* or from the collection when the token is missing, with a null reference;
\* from then on its summary and reference stay as they are, and the upsert
\* runs only for a run in the persist and stores that run's summary and,
\* unless it is null, that run's reference.
C24_StepOrdering ==
  [][/\ \A r \in Triggers :
          (runs'[r].pc = "posting" /\ runs[r].pc # "posting")
            => /\ runs[r].pc = "collecting" /\ Cardinality(runs[r].pending) = 1
               /\ runs'[r].pending = {} /\ ~Falsy(config.slackBotToken)
     /\ posted' # posted
          => \E r \in Triggers :
               /\ runs[r].pc = "posting" /\ runs'[r].pc = "persisting"
               /\ posted' = Append(posted, runs'[r].messageTs)
               /\ runs'[r].messageTs # Absent
               /\ runs'[r].summary = runs[r].summary
     /\ \A r \in Triggers :
          (runs'[r].pc = "persisting" /\ runs[r].pc # "persisting")
            => \/ runs[r].pc = "posting" /\ posted' # posted
               \/ /\ runs[r].pc = "collecting" /\ runs'[r].pending = {}
                  /\ Falsy(config.slackBotToken)
                  /\ runs'[r].messageTs = Absent /\ posted' = posted
     /\ \A r \in Triggers :
          (runs'[r].pc = "persisting" /\ runs[r].pc = "persisting")
            => runs'[r] = runs[r]
     /\ daily_summaries' # daily_summaries => \E r \in Triggers : PersistStep(r)
     /\ \A r \in Triggers : PersistStep(r) =>
          \E row \in daily_summaries' :
            /\ row.channel_id = runs[r].summary.channelId
            /\ row.stat_date = runs[r].summary.statDate
            /\ RowCounts(row) = SummaryCounts(runs[r].summary)
            /\ runs[r].messageTs # Absent => row.message_ts = runs[r].messageTs
            /\ Falsy(config.slackBotToken) => row.message_ts = Absent]_vars

\* Two runs posted and persisted: the rows of two dates carry the two
\* references, each with the counts its run collected.
C24_Witness ==
  /\ Len(posted) = 2
  /\ \E a, b \in daily_summaries :
       /\ a.stat_date # b.stat_date
       /\ a.message_ts = posted[1] /\ b.message_ts = posted[2]
       /\ RowCounts(a) # RowCounts(b)

\* The step in which the post of run r throws.
PostThrows(r) ==
  runs[r].pc = "posting" /\ runs'[r].pc \notin {"posting", "persisting"}

\* C25: the step in which a run's post throws ends the run, drops its
\* summary and leaves the summary table and the posted messages as they
\* were; the run is over, so that only a new run of the trigger changes its
\* record afterwards, and every row stored before keeps its counts and
\* reference until the persist of another run.
C25_PostFailureLosesSummary ==
  [][/\ \A r \in Triggers :
          PostThrows(r) =>
            /\ daily_summaries' = daily_summaries
            /\ posted' = posted
            /\ runs'[r].pc = "done" /\ runs'[r].outcome = "post_failed"
            /\ runs'[r].summary = NoSummary /\ runs'[r].messageTs = Absent
     /\ \A r \in Triggers :
          (runs[r].outcome = "post_failed" /\ runs'[r] # runs[r])
            => /\ runs[r].pc = "done"
               /\ runs'[r].started = runs[r].started + 1
               /\ daily_summaries' = daily_summaries
     /\ daily_summaries' # daily_summaries
          => \E r \in Triggers :
               /\ runs[r].pc = "persisting" /\ runs[r].outcome = "none"
               /\ runs'[r].outcome = "ok"]_vars

\* The timer's first run stored the row of the day before any reaction was
\* there; its second run, with the reaction stored, failed in the post: the
\* row still has the first run's counts and reference.
C25_Witness ==
  /\ runs["manual"].started = 0
  /\ runs["timer"].started = 2 /\ runs["timer"].outcome = "post_failed"
  /\ reaction_events # {}
  /\ Len(posted) = 1
  /\ \E row \in daily_summaries :
       /\ row.message_ts = posted[1] /\ row.reaction_count = 0
       /\ daily_summaries = {row}

\* The field of a raw event that names its channel, by kind.
ChannelField(event) ==
  CASE event.type = "reaction_added" -> event.item_channel
    [] event.type = "file_shared" -> event.channel_id
    [] OTHER -> event.channel

\* C26: delivering an event of one of the five kinds whose channel field is
\* missing makes the call return at once, without a save and without a
\* throw, and changes no table; every row of every event table has a
\* non-empty channel id, the one of its raw event's channel field.
C26_MissingChannelSkip ==
  [][/\ \A c \in CallIds, p \in Payloads :
          (calls'[c] # calls[c] /\ calls[c].pc = "idle"
             /\ p.has_event /\ p.event_id \notin {Absent, ""}
             /\ KindTable(p.event.type) # "none"
             /\ ChannelField(p.event) \in {Absent, ""}
             /\ Deliver(c, p))
            => /\ calls'[c].pc = "returned"
               /\ UNCHANGED tables
               /\ finished' = finished \cup {Ended("none", Absent, "missing_channel")}
     /\ \A name \in EventTables : \A r \in Table(name)' :
          /\ r.channel_id \notin {Absent, ""}
          /\ r.channel_id = ChannelField(r.raw_event)]_vars

\* An event without channel was skipped and the other delivery stored its
\* row.
C26_Witness ==
  /\ \E e \in finished : e.why = "missing_channel"
  /\ \E e \in finished : e.why = "saved"
  /\ \E name \in EventTables : Table(name) # {}
  /\ \A c \in CallIds : calls[c].pc = "returned"

\* The summary of a channel and range over the store as it is, each count
\* under its own name.
SummaryOver(channelId, statDate, range) ==
  [channelId |-> channelId, statDate |-> statDate,
   reactionCount |->
     countReactionsBetween(reaction_events, channelId, range.start, range.end),
   newMemberCount |->
     countNewMembersBetween(member_events, channelId, range.start, range.end),
   memberRemovedCount |->
     countMembersRemovedBetween(member_events, channelId, range.start, range.end),
   messageCount |->
     countMessagesBetween(message_events, channelId, range.start, range.end),
   fileUploadCount |->
     countFileUploadsBetween(file_events, channelId, range.start, range.end)]

\* C27: over a store that does not change, a run leaves the collection for
\* the post or the persist only with its fifth count, and then its summary
\* is the one of its channel, date and range, each count in its own field,
\* in whatever order the five came in; a count that comes in fills its own
\* field and no other; and when one of the five fails the run ends at once,
\* failed, with no summary, no post and no row.
C27_IndependentCounts ==
  [][\A r \in Triggers :
       (runs[r].pc = "collecting" /\ runs'[r] # runs[r]) =>
         /\ runs'[r].pc \in {"posting", "persisting"}
              => /\ Cardinality(runs[r].pending) = 1 /\ runs'[r].pending = {}
                 /\ runs'[r].summary =
                      SummaryOver(config.slackChannelId,
                                  runs[r].summary.statDate, runs[r].range)
         /\ runs'[r].pc = "collecting"
              => /\ runs'[r].pending # {}
                 /\ \E kind \in runs[r].pending :
                      /\ runs'[r].pending = runs[r].pending \ {kind}
                      /\ \A other \in Kinds \ {kind} :
                           runs'[r].summary[other] = runs[r].summary[other]
                 /\ runs'[r].summary.statDate = runs[r].summary.statDate
                 /\ runs'[r].range = runs[r].range
         /\ runs'[r].pc \notin {"posting", "persisting", "collecting"}
              => /\ runs'[r].pc = "done" /\ runs'[r].outcome = "collect_failed"
                 /\ runs'[r].summary = NoSummary
                 /\ UNCHANGED <<daily_summaries, posted>>]_vars

\* One run has all five counts in, with the reaction of the day counted as
\* a reaction, and the other run failed in one of its counts.
C27_Witness ==
  \E r, o \in Triggers :
    /\ runs[r].pc \in {"posting", "persisting"}
    /\ runs[r].summary.reactionCount = 1 /\ runs[r].summary.messageCount = 0
    /\ runs[o].outcome = "collect_failed" /\ ~Falsy(config.slackChannelId)

\* A step of collectStatsForDate in run r: the call itself, one of its
\* counts coming in, or one of them failing.
CollectStep(r) ==
  runs[r].pc \in {"idle", "done", "collecting"} /\ runs'[r] # runs[r]

\* C28: no step of collectStatsForDate, succeeding or failing, changes an
\* event table or the summary table; the summary table changes only in the
\* persist of a run, and an event table only in the INSERT of a
\* processSlackEvent call, which changes no run.
C28_CollectReadOnly ==
  [][/\ \A r \in Triggers :
          CollectStep(r) => UNCHANGED <<tables, daily_summaries>>
     /\ daily_summaries' # daily_summaries
          => /\ \E r \in Triggers : PersistStep(r)
             /\ UNCHANGED tables
     /\ \A name \in EventTables :
          Table(name)' # Table(name)
            => /\ \E c \in CallIds : SaveRuns(c) /\ calls[c].req.table = name
               /\ runs' = runs
               /\ daily_summaries' = daily_summaries]_vars

\* One run has collected the stored reaction and the other has failed in
\* its collection: the reaction table holds its row and no summary row has
\* been written.
C28_Witness ==
  /\ \E r, o \in Triggers :
       /\ runs[r].pc = "posting" /\ runs[r].summary.reactionCount = 1
       /\ runs[o].outcome = "collect_failed"
  /\ Cardinality(reaction_events) = 1
  /\ daily_summaries = {}

\* C29: every step keeps every row of every event table as it is, and
\* keeps a row for every (channel, date) that has one: the event ids of
\* each table and the summary keys only grow.
C29_MonotonicState ==
  [][/\ \A name \in EventTables :
          /\ Table(name) \subseteq Table(name)'
          /\ {r.event_id : r \in Table(name)} \subseteq {r.event_id : r \in Table(name)'}
     /\ {SummaryKey(r) : r \in daily_summaries}
          \subseteq {SummaryKey(r) : r \in daily_summaries'}]_vars

\* Two deliveries under one event id and two runs for one date have all
\* ended: one reaction row and one summary row, posted twice.
C29_Witness ==
  /\ \A c \in CallIds : calls[c].pc = "returned"
  /\ Cardinality(reaction_events) = 1
  /\ \E e \in finished : e.why = "saved"
  /\ \A r \in Triggers : runs[r].outcome = "ok"
  /\ Cardinality(daily_summaries) = 1
  /\ Len(posted) = 2

(***************************************************************************)
(* The outbound post of a run, under SpecRuns.                             *)
(***************************************************************************)
\* The rows stored under the key of the summary run r holds.
RowsOfRun(rows, r) ==
  SummariesAt(rows, runs[r].summary.channelId, runs[r].summary.statDate)

\* C31: an invocation of runDailySummaryJob calls chat.postMessage at most
\* once: the call is made when the five counts are in, a rejected call ends
\* the run with nothing posted and nothing stored, and only a new invocation
\* posts again.  A run for a (channel, date) that already has its row posts
\* all the same, and the key keeps a single row.
C31_SinglePost ==
  [][/\ \A r \in Triggers :
          /\ runs'[r].posts <= 1
          /\ runs'[r].posts # runs[r].posts
               => \/ /\ runs'[r].started = runs[r].started + 1
                     /\ runs'[r].posts = 0
                  \/ /\ runs[r].pc = "collecting" /\ runs'[r].pc = "posting"
                     /\ runs'[r].posts = runs[r].posts + 1
          /\ (runs[r].pc = "posting" /\ runs'[r] # runs[r])
               => \/ /\ runs'[r].pc = "persisting"
                     /\ Len(posted') = Len(posted) + 1
                     /\ runs'[r].messageTs = posted'[Len(posted')]
                  \/ /\ runs'[r].pc = "done" /\ runs'[r].outcome = "post_failed"
                     /\ runs'[r].posts = runs[r].posts
                     /\ posted' = posted
                     /\ daily_summaries' = daily_summaries
          /\ (/\ runs[r].pc = "collecting" /\ runs'[r].pc # "collecting"
              /\ runs'[r].outcome # "collect_failed"
              /\ ~Falsy(config.slackBotToken)
              /\ RowsOfRun(daily_summaries, r) # {})
               => runs'[r].pc = "posting" /\ runs'[r].posts = 1
     /\ posted' # posted
          => \E r \in Triggers : runs[r].pc = "posting" /\ runs'[r].pc = "persisting"
     /\ \A a, b \in daily_summaries' : SummaryKey(a) = SummaryKey(b) => a = b]_vars

\* The key was summarised and posted by one run, then by another: two
\* messages are out, each run made one call, and the key has one row, with
\* the second reference.
C31_Witness ==
  /\ \A r \in Triggers :
       runs[r].pc = "done" /\ runs[r].outcome = "ok" /\ runs[r].posts = 1
  /\ Len(posted) = 2
  /\ \E row \in daily_summaries :
       /\ daily_summaries = {row}
       /\ row.message_ts = posted[2]

(***************************************************************************)
(* Normalisation of file and message events, under Spec.                   *)
(***************************************************************************)
\* C32: every stored file event has the channel of its body's channel_id
\* field, the actor of its user_id field and the file id of its file_id
\* field; its file name is the nested name of the body, or 'Unknown' when the
\* body has no nested name or an empty one, and is never null.
C32_FileNormalization ==
  \A r \in file_events :
    /\ r.raw_event.type = "file_shared"
    /\ r.channel_id = r.raw_event.channel_id
    /\ r.user_id = r.raw_event.user_id
    /\ r.file_id = r.raw_event.file_id
    /\ r.file_name = IF r.raw_event.file_name \in {Absent, ""} THEN "Unknown"
                     ELSE r.raw_event.file_name
    /\ r.file_name # Absent

\* Two uploads are stored: one that named its file and one that did not.
C32_Witness ==
  /\ \E r \in file_events :
       r.raw_event.file_name = "document.pdf" /\ r.file_name = "document.pdf"
  /\ \E r \in file_events :
       r.raw_event.file_name = Absent /\ r.file_name = "Unknown"

\* C33: every stored message event and file event is of the configured
\* channel: an event of another channel is not stored.
C33_TargetChannelFilter ==
  \A r \in message_events \cup file_events : r.channel_id = config.slackChannelId

(***************************************************************************)
(* Channels kept apart, under SpecChannels.                                *)
(***************************************************************************)
\* The rows of a kind that belong to the configured channel and fall in the
\* interval.
OwnRows(kind, start, end) ==
  {o \in RowsOfKind(kind) :
     /\ o.channel_id = config.slackChannelId
     /\ Within(TimestampOf(kind, o), start, end)}
\* A step that stores rows, none of them of the configured channel.
StoresOtherChannel ==
  /\ tables' # tables
  /\ \A name \in EventTables :
       \A o \in Table(name)' \ Table(name) : o.channel_id # config.slackChannelId
\* The five counts of the configured channel over yesterday's window, taken
\* from the given tables.
YesterdaysCounts(reactions, members, messages, files) ==
  LET range == getDayRange(getDefaultDate(FALSE), config.timezone)
      channelId == config.slackChannelId
  IN  <<countReactionsBetween(reactions, channelId, range.start, range.end),
        countNewMembersBetween(members, channelId, range.start, range.end),
        countMembersRemovedBetween(members, channelId, range.start, range.end),
        countMessagesBetween(messages, channelId, range.start, range.end),
        countFileUploadsBetween(files, channelId, range.start, range.end)>>

\* C34: every row of daily_summaries has the configured channel; each count
\* a run takes is the number of rows of the configured channel in the day
\* window, whatever is stored for other channels; and storing an event of
\* another channel changes no count of the summary of the configured one.
C34_ChannelIsolation ==
  [][/\ \A row \in daily_summaries' : row.channel_id = config.slackChannelId
     /\ \A r \in Triggers, kind \in Kinds :
          (/\ runs[r].pc = "collecting"
           /\ kind \in runs[r].pending /\ kind \notin runs'[r].pending
           /\ runs'[r].outcome # "collect_failed")
            => /\ runs'[r].summary.channelId = config.slackChannelId
               /\ runs'[r].summary[kind] =
                    Cardinality(OwnRows(kind, runs[r].range.start, runs[r].range.end))
     /\ StoresOtherChannel
          => YesterdaysCounts(reaction_events', member_events', message_events',
                              file_events')
               = YesterdaysCounts(reaction_events, member_events, message_events,
                                  file_events)]_vars

\* A row of every table is stored for C2 and one reaction for C1; the summary
\* of C1 persisted after that counts the one reaction and nothing else.
C34_Witness ==
  /\ \A row \in ChannelPool : row \in Table(PoolTable(row))
  /\ \E r \in Triggers : runs[r].pc = "done" /\ runs[r].outcome = "ok"
  /\ \E row \in daily_summaries :
       /\ row.channel_id = "C1"
       /\ RowCounts(row) = <<1, 0, 0, 0, 0>>

(***************************************************************************)
(* Runs for a date given by the caller, under SpecDates.                   *)
(***************************************************************************)
\* The window of calendar day d: its 24 hours in UTC, as getDayRange builds
\* it from the date's fields, or its 24 hours on the wall clock of zone tz.
DayWindows(d, tz) ==
  LET day == DaysFromCivil(d.year, d.month, d.day)
      utc == [start |-> Instant(day, 0), end |-> Instant(day, MsPerDay - 1)]
      shift == 0 - TzOffsetMinutes(tz) * MsPerMinute
  IN  {utc, [start |-> PlusMs(utc.start, shift), end |-> PlusMs(utc.end, shift)]}

\* C35: a run given a date string that parses produces a summary whose
\* statDate is the date the string names and counts over the window of that
\* calendar day, whatever the configured time zone.
C35_ExplicitDateFidelity ==
  (win.op = "runDailySummaryJob" /\ Parses(win.date)) =>
    /\ win.result.statDate = NamedDate(win.date)
    /\ getDayRange(win.targetDate, config.timezone)
         \in DayWindows(NamedDate(win.date), config.timezone)

(***************************************************************************)
(* Stored counts against the stored events, under SpecJob.                 *)
(***************************************************************************)
\* The numbers of stored events of the five kinds in the day window of a
\* summary row, for the row's channel.
ActualCounts(row) ==
  LET day == DaysFromCivil(row.stat_date.year, row.stat_date.month, row.stat_date.day)
      in(kind) == Cardinality({o \in RowsOfKind(kind) :
                                 /\ o.channel_id = row.channel_id
                                 /\ Within(TimestampOf(kind, o), Instant(day, 0),
                                           Instant(day, MsPerDay - 1))})
  IN  <<in("reactionCount"), in("newMemberCount"), in("memberRemovedCount"),
        in("messageCount"), in("fileUploadCount")>>
\* Every run that was started has completed successfully, and one was.
AllRunsSucceeded ==
  /\ \A r \in Triggers :
       runs[r].started > 0 => runs[r].pc = "done" /\ runs[r].outcome = "ok"
  /\ \E r \in Triggers : runs[r].started > 0

JoinedWithId(id) ==
  {j \in member_events : j.event_id = id /\ j.event_type = "member_joined_channel"}

\* C37: the INSERT of a member_left_channel event whose id is stored for a
\* member_joined_channel event raises nothing and leaves member_events as it
\* was, with the joined row and no left row under that id; an INSERT whose
\* id is stored in other tables only adds its row to its own table and
\* leaves the others alone; and processSlackEvent never throws.
C37_SharedMemberIds ==
  [][/\ \A c \in CallIds :
          (/\ calls[c].pc = "query"
           /\ calls[c].req.table = "member_events"
           /\ calls[c].req.row.event_type = "member_left_channel"
           /\ JoinedWithId(calls[c].req.row.event_id) # {}
           /\ QueryExecutes(c))
            => /\ calls'[c].pc = "resolved"
               /\ UNCHANGED tables
               /\ \A o \in member_events' :
                    o.event_id = calls[c].req.row.event_id
                      => o.event_type = "member_joined_channel"
     /\ \A c \in CallIds :
          (/\ calls[c].pc = "query"
           /\ ~HasEventId(Table(calls[c].req.table), calls[c].req.row.event_id)
           /\ \E other \in EventTables \ {calls[c].req.table} :
                HasEventId(Table(other), calls[c].req.row.event_id)
           /\ ~HasNull(calls[c].req.table, calls[c].req.row)
           /\ QueryExecutes(c))
            => /\ calls'[c].pc = "resolved"
               /\ Table(calls[c].req.table)'
                    = Table(calls[c].req.table) \cup {calls[c].req.row}
               /\ \A other \in EventTables \ {calls[c].req.table} :
                    Table(other)' = Table(other)
     /\ \A c \in CallIds : calls'[c].pc # "threw"]_vars

\* A left event came under the id of a stored joined event and its INSERT
\* has run: the table holds the joined row alone.
C37_Witness ==
  \E c \in CallIds :
    /\ calls[c].pc = "resolved"
    /\ calls[c].req.table = "member_events"
    /\ calls[c].req.row.event_type = "member_left_channel"
    /\ JoinedWithId(calls[c].req.row.event_id) # {}
    /\ Cardinality(member_events) = 1
====
